---- MODULE Spec2Model ----
(***************************************************************************)
(* A model of the text engine of the trout editor: Line (a UTF-8 string    *)
(* with its grapheme boundary table), Buffer (a vector of Lines) and       *)
(* Screen (cursor, scroll offset and the normal-mode event loop).          *)
(*                                                                         *)
(* A String is modelled as the sequence of its code points; every byte     *)
(* offset the code computes is kept as a byte offset and turned into a     *)
(* position of that sequence the way the standard library does it: an      *)
(* offset that is past the end or inside a code point makes the call       *)
(* panic.  A panic ends the process: the operation returns Panic and the   *)
(* action records it in `panicked`, after which nothing more happens.      *)
(***************************************************************************)
EXTENDS Integers, Sequences, FiniteSets, TLC

VARIABLES
    debug_build,     \* TRUE: integer overflow panics (dev/test profile); FALSE: it wraps (release)
    panicked,        \* TRUE once an operation has panicked
    line,            \* Line spec: the Line under edit
    last,            \* Line spec: the last operation, its arguments and the Line before it
    buffer,          \* Buffer and Screen specs: the Buffer
    blast,           \* Buffer spec: the last Buffer operation and its arguments
    size,            \* Screen spec: the terminal Size
    text_position,   \* Screen spec: the cursor (row, byte, grapheme)
    scroll_offset,   \* Screen spec: the scroll offset (row, col)
    screen_location, \* Screen spec: the caret location on screen (row, col)
    pc,              \* Screen spec: position in NormalViewer::run ("read" or "draw")
    key,             \* Screen spec: the event handled last
    rt,              \* round-trip spec: the copy/paste experiment in progress
    disk,            \* file spec: the file system, a file (or none) for each path
    path,            \* file spec: the `path` field of the Buffer
    input_buffer,    \* key spec: the `input_buffer` field of the KeyReader
    klast,           \* key spec: the last key event, what normal_mode returned for it,
                     \* and the strip_digits call it made
    loop             \* paste spec: the position in fix_newlines, its local `idx`, the
                     \* splits made and the terminators the Buffer held on entry

vars == <<debug_build, panicked, line, last, buffer, blast, size, text_position,
          scroll_offset, screen_location, pc, key, rt, disk, path, input_buffer, klast,
          loop>>

-----------------------------------------------------------------------------
(* Bounds of the model *)

\* longest Line text (in code points) the Line spec grows a line to
MaxLen == 3
\* longest string (in code points) handed to insert_str / paste_text
MaxStr == 2
\* most operations the Buffer spec applies to a loaded Buffer
MaxOps == 2
\* the key spec reads keys while the input buffer is shorter than this
MaxInput == 5

-----------------------------------------------------------------------------
(* usize arithmetic *)

\* usize is 64 bits wide; the checker's integers are 32 bits wide, so the
\* modulus is scaled down.  Every offset of the model is below 100, and a
\* wrapped value only ever matters as "a value far beyond every length".
UsizeModulus == 2^30

WrapSub(a, b) == IF a >= b THEN a - b ELSE a - b + UsizeModulus

WrapAdd(a, b) == (a + b) % UsizeModulus

SatSub(a, b) == IF a >= b THEN a - b ELSE 0

Min(a, b) == IF a <= b THEN a ELSE b

-----------------------------------------------------------------------------
(* Code points and strings *)

\* "a": U+0061, a word character.  "LF": U+000A, the line terminator.
\* "ACUTE": U+0301, a combining mark (Grapheme_Extend).  "EURO": U+20AC.
\* "HWAIR": U+10348.  These are the code points of the Line specification.
Chars == {"a", "LF", "ACUTE", "EURO", "HWAIR"}

\* further code points of the files the Screen and file specifications load:
\* "SP": U+0020, "LPAREN": U+0028, "CR": U+000D
MoreChars == {"SP", "LPAREN", "CR"}

\* char::len_utf8
len_utf8(c) ==
    CASE c = "a" -> 1
      [] c = "LF" -> 1
      [] c = "ACUTE" -> 2
      [] c = "EURO" -> 3
      [] c = "HWAIR" -> 4
      [] c = "SP" -> 1
      [] c = "LPAREN" -> 1
      [] c = "CR" -> 1

RECURSIVE ByteLen(_)
\* str::len: the length in bytes
ByteLen(s) == IF s = <<>> THEN 0 ELSE len_utf8(Head(s)) + ByteLen(Tail(s))

\* the byte offset at which code point i (1-based) of s starts
ByteOf(s, i) == ByteLen(SubSeq(s, 1, i - 1))

\* str::is_char_boundary
IsCharBoundary(s, b) == \E i \in 1..(Len(s) + 1) : ByteOf(s, i) = b

\* the number of code points of s that lie before the char boundary b
CharsBefore(s, b) == CHOOSE n \in 0..Len(s) : ByteOf(s, n + 1) = b

\* s[..b] and s[b..] for a char boundary b
StrTo(s, b) == SubSeq(s, 1, CharsBefore(s, b))

StrFrom(s, b) == SubSeq(s, CharsBefore(s, b) + 1, Len(s))

\* s[a..b) for char boundaries a <= b
StrRange(s, a, b) == SubSeq(s, CharsBefore(s, a) + 1, CharsBefore(s, b))

\* all strings of at most n code points over the set cs
StringsUpTo(cs, n) == UNION {[1..k -> cs] : k \in 0..n}

Ok(v) == [ok |-> TRUE, val |-> v]

Panic == [ok |-> FALSE]

-----------------------------------------------------------------------------
(* Extended grapheme clusters (UAX #29) over Chars *)

IsControl(c) == c \in {"LF", "CR"}

IsExtend(c) == c = "ACUTE"

\* there is a cluster boundary between two adjacent code points unless they
\* are CR LF (GB3) or the second extends the first (GB9); nothing else
\* attaches to a control (GB4, GB5)
BreakBetween(c1, c2) ==
    /\ ~(c1 = "CR" /\ c2 = "LF")
    /\ (IsControl(c1) \/ IsControl(c2) \/ ~IsExtend(c2))

\* UnicodeSegmentation::grapheme_indices(s, true): the byte offsets at which
\* the clusters of s start, in order
RECURSIVE GraphemeIndicesFrom(_, _)
GraphemeIndicesFrom(s, i) ==
    IF i > Len(s) THEN <<>>
    ELSE (IF i = 1 \/ BreakBetween(s[i - 1], s[i]) THEN <<ByteOf(s, i)>> ELSE <<>>)
         \o GraphemeIndicesFrom(s, i + 1)

grapheme_indices(s) == GraphemeIndicesFrom(s, 1)

-----------------------------------------------------------------------------
(* Vec<usize> helpers; indices are 0-based as in the source *)

At(v, i) == v[i + 1]

\* Vec::insert(i, x), i <= len
VecInsert(v, i, x) == SubSeq(v, 1, i) \o <<x>> \o SubSeq(v, i + 1, Len(v))

\* Vec::remove(i), i < len
VecRemove(v, i) == SubSeq(v, 1, i) \o SubSeq(v, i + 2, Len(v))

\* Vec::splice(i..i, xs), i <= len
VecSplice(v, i, xs) == SubSeq(v, 1, i) \o xs \o SubSeq(v, i + 1, Len(v))

VecLast(v) == v[Len(v)]

-----------------------------------------------------------------------------
(* Line *)

NewLine(t, c, s, e) ==
    [text |-> t, grapheme_count |-> c, grapheme_starts |-> s, grapheme_ends |-> e]

\* Line::from_string
from_string(in_string) ==
    LET idx == grapheme_indices(in_string)
        n == Len(idx)
    IN NewLine(in_string, n, idx,
               [i \in 1..n |-> IF i < n THEN SatSub(idx[i + 1], 1)
                               ELSE SatSub(ByteLen(in_string), 1)])

\* the loops "for idx in from..grapheme_count { v[idx] += d }"
ShiftUp(v, from, count, d) ==
    [i \in 1..Len(v) |-> IF i - 1 >= from /\ i - 1 < count THEN v[i] + d ELSE v[i]]

\* String::insert / String::insert_str at byte offset b
StringInsert(t, b, s) ==
    IF IsCharBoundary(t, b) THEN Ok(StrTo(t, b) \o s \o StrFrom(t, b)) ELSE Panic

\* Line::insert_char, a mutant: the middle branch shifts the starts of the
\* following graphemes but not their ends
insert_char_NoEndShift(l, grapheme_index, character) ==
    LET glen == len_utf8(character)
        n == l.grapheme_count
    IN IF grapheme_index > n THEN Panic
       ELSE IF grapheme_index = 0 THEN
           Ok(NewLine(<<character>> \o l.text, n + 1,
                      <<0>> \o ShiftUp(l.grapheme_starts, 0, n, glen),
                      <<glen - 1>> \o ShiftUp(l.grapheme_ends, 0, n, glen)))
       ELSE IF grapheme_index = n THEN
           LET starts == Append(l.grapheme_starts, VecLast(l.grapheme_ends) + 1)
           IN Ok(NewLine(Append(l.text, character), n + 1, starts,
                         Append(l.grapheme_ends, VecLast(starts) + glen - 1)))
       ELSE
           LET text_pos == At(l.grapheme_starts, grapheme_index)
               t == StringInsert(l.text, text_pos, <<character>>)
           IN IF ~t.ok THEN Panic
              ELSE Ok(NewLine(t.val, n + 1,
                       VecInsert(ShiftUp(l.grapheme_starts, grapheme_index, n, glen),
                                 grapheme_index, text_pos),
                       VecInsert(l.grapheme_ends,
                                 grapheme_index, text_pos + glen - 1)))

\* Line::insert_char, a mutant: an index past the end is clamped to the end
\* instead of panicking
insert_char_ClampsIndex(l, grapheme_index, character) ==
    LET glen == len_utf8(character)
        n == l.grapheme_count
        gi == IF grapheme_index > n THEN n ELSE grapheme_index
    IN IF gi = 0 THEN
           Ok(NewLine(<<character>> \o l.text, n + 1,
                      <<0>> \o ShiftUp(l.grapheme_starts, 0, n, glen),
                      <<glen - 1>> \o ShiftUp(l.grapheme_ends, 0, n, glen)))
       ELSE IF gi = n THEN
           LET starts == Append(l.grapheme_starts, VecLast(l.grapheme_ends) + 1)
           IN Ok(NewLine(Append(l.text, character), n + 1, starts,
                         Append(l.grapheme_ends, VecLast(starts) + glen - 1)))
       ELSE
           LET text_pos == At(l.grapheme_starts, gi)
               t == StringInsert(l.text, text_pos, <<character>>)
           IN IF ~t.ok THEN Panic
              ELSE Ok(NewLine(t.val, n + 1,
                       VecInsert(ShiftUp(l.grapheme_starts, gi, n, glen), gi, text_pos),
                       VecInsert(ShiftUp(l.grapheme_ends, gi, n, glen),
                                 gi, text_pos + glen - 1)))

\* Line::insert_char
insert_char(l, grapheme_index, character) ==
    LET glen == len_utf8(character)
        n == l.grapheme_count
    IN IF grapheme_index > n THEN Panic
       ELSE IF grapheme_index = 0 THEN
           Ok(NewLine(<<character>> \o l.text, n + 1,
                      <<0>> \o ShiftUp(l.grapheme_starts, 0, n, glen),
                      <<glen - 1>> \o ShiftUp(l.grapheme_ends, 0, n, glen)))
       ELSE IF grapheme_index = n THEN
           LET starts == Append(l.grapheme_starts, VecLast(l.grapheme_ends) + 1)
           IN Ok(NewLine(Append(l.text, character), n + 1, starts,
                         Append(l.grapheme_ends, VecLast(starts) + glen - 1)))
       ELSE
           LET text_pos == At(l.grapheme_starts, grapheme_index)
               t == StringInsert(l.text, text_pos, <<character>>)
           IN IF ~t.ok THEN Panic
              ELSE Ok(NewLine(t.val, n + 1,
                       VecInsert(ShiftUp(l.grapheme_starts, grapheme_index, n, glen),
                                 grapheme_index, text_pos),
                       VecInsert(ShiftUp(l.grapheme_ends, grapheme_index, n, glen),
                                 grapheme_index, text_pos + glen - 1)))

\* Line::insert_str
insert_str(l, grapheme_index, s) ==
    LET self == IF l.grapheme_count = 0 THEN from_string(s) ELSE l
        new_text == from_string(s)
    IN IF grapheme_index >= Len(self.grapheme_starts) THEN Panic
       ELSE
       LET insert_idx == At(self.grapheme_starts, grapheme_index)
           t == StringInsert(self.text, insert_idx, s)
           insert_len == IF new_text.grapheme_ends = <<>> THEN 0
                         ELSE VecLast(new_text.grapheme_ends) + 1
           n == self.grapheme_count
           insert_starts == [i \in 1..Len(new_text.grapheme_starts) |->
                                new_text.grapheme_starts[i] + insert_idx]
           insert_ends == [i \in 1..Len(new_text.grapheme_ends) |->
                              new_text.grapheme_ends[i] + insert_idx]
       IN IF ~t.ok THEN Panic
          ELSE Ok(NewLine(t.val, n + new_text.grapheme_count,
                   VecSplice(ShiftUp(self.grapheme_starts, grapheme_index, n, insert_len),
                             grapheme_index, insert_starts),
                   VecSplice(ShiftUp(self.grapheme_ends, grapheme_index, n, insert_len),
                             grapheme_index, insert_ends)))

\* String::replace_range(a..=b, "")
StringRemoveRange(t, a, b) ==
    IF IsCharBoundary(t, a) /\ IsCharBoundary(t, b + 1) /\ a <= b + 1
    THEN Ok(StrTo(t, a) \o StrFrom(t, b + 1)) ELSE Panic

\* the loop "for idx in from..grapheme_count { v[idx] -= d }": the
\* subtraction overflows where v[idx] < d
ShiftDownOverflows(v, from, count, d) ==
    \E i \in 1..Len(v) : i - 1 >= from /\ i - 1 < count /\ v[i] < d

ShiftDown(v, from, count, d) ==
    [i \in 1..Len(v) |-> IF i - 1 >= from /\ i - 1 < count THEN WrapSub(v[i], d) ELSE v[i]]

\* Line::delete_grapheme
delete_grapheme(l, grapheme_index) ==
    IF grapheme_index >= l.grapheme_count THEN Ok(l)
    ELSE
    LET s == At(l.grapheme_starts, grapheme_index)
        e == At(l.grapheme_ends, grapheme_index)
        t == StringRemoveRange(l.text, s, e)
        grapheme_length == WrapAdd(WrapSub(e, s), 1)
        n == l.grapheme_count
    IN IF ~t.ok THEN Panic
       ELSE IF debug_build /\ e < s THEN Panic
       ELSE IF debug_build
               /\ (ShiftDownOverflows(l.grapheme_starts, grapheme_index, n, grapheme_length)
                   \/ ShiftDownOverflows(l.grapheme_ends, grapheme_index, n, grapheme_length))
            THEN Panic
       ELSE Ok(NewLine(t.val, n - 1,
                 VecRemove(ShiftDown(l.grapheme_starts, grapheme_index, n, grapheme_length),
                           grapheme_index),
                 VecRemove(ShiftDown(l.grapheme_ends, grapheme_index, n, grapheme_length),
                           grapheme_index)))

\* Line::grapheme_start
grapheme_start(l, grapheme_index) ==
    IF l.grapheme_count = 0 THEN Ok(0)
    ELSE IF grapheme_index >= l.grapheme_count
         THEN Ok(At(l.grapheme_starts, l.grapheme_count - 1))
    ELSE Ok(At(l.grapheme_starts, grapheme_index))

\* Line::grapheme_end, a mutant: no early return on an empty Line
grapheme_end_NoEmptyCheck(l, grapheme_index) ==
    IF grapheme_index >= Len(l.grapheme_ends) THEN Panic
    ELSE Ok(At(l.grapheme_ends, grapheme_index))

\* Line::grapheme_end
grapheme_end(l, grapheme_index) ==
    IF l.grapheme_count = 0 THEN Ok(0)
    ELSE IF grapheme_index >= Len(l.grapheme_ends) THEN Panic
    ELSE Ok(At(l.grapheme_ends, grapheme_index))

\* v[i], which panics when i is out of bounds
Index(v, i) == IF i < Len(v) THEN Ok(At(v, i)) ELSE Panic

\* Line::next_grapheme_start
next_grapheme_start(l, grapheme_index) ==
    IF l.grapheme_count = 0 THEN Ok(0)
    ELSE IF grapheme_index >= l.grapheme_count
         THEN Index(l.grapheme_starts, l.grapheme_count - 1)
    ELSE Index(l.grapheme_starts, grapheme_index + 1)

\* Line::prev_grapheme_start
prev_grapheme_start(l, grapheme_index) ==
    IF l.grapheme_count = 0 THEN Ok(0)
    ELSE IF grapheme_index <= 0 THEN Index(l.grapheme_starts, 0)
    ELSE Index(l.grapheme_starts, grapheme_index - 1)

\* Line::next_grapheme_end
next_grapheme_end(l, grapheme_index) ==
    IF l.grapheme_count = 0 THEN Ok(0)
    ELSE IF grapheme_index >= l.grapheme_count
         THEN Index(l.grapheme_ends, l.grapheme_count - 1)
    ELSE Index(l.grapheme_ends, grapheme_index + 1)

\* Line::prev_grapheme_end
prev_grapheme_end(l, grapheme_index) ==
    IF l.grapheme_count = 0 THEN Ok(0)
    ELSE IF grapheme_index <= 0 THEN Index(l.grapheme_ends, 0)
    ELSE Index(l.grapheme_ends, grapheme_index - 1)

\* the Range a..b
Range(a, b) == [start |-> a, end |-> b]

\* the first idx in 0..grapheme_count with ends[idx] >= text_index and
\* starts[idx] <= text_index: <<idx>>, or <<>>
FirstHit(l, text_index) ==
    LET hits == {idx \in 0..(l.grapheme_count - 1) :
                     /\ At(l.grapheme_ends, idx) >= text_index
                     /\ At(l.grapheme_starts, idx) <= text_index}
    IN IF hits = {} THEN <<>> ELSE <<CHOOSE idx \in hits : \A j \in hits : idx <= j>>

\* Line::text_index_to_grapheme_range
text_index_to_grapheme_range(l, text_index) ==
    IF l.grapheme_count = 0 THEN Ok(Range(0, 0))
    ELSE IF text_index > ByteLen(l.text)
         THEN Ok(Range(At(l.grapheme_starts, 0), At(l.grapheme_ends, 0)))
    ELSE LET hit == FirstHit(l, text_index)
             n == l.grapheme_count
         IN IF hit # <<>>
            THEN Ok(Range(At(l.grapheme_starts, hit[1]), At(l.grapheme_ends, hit[1]) + 1))
            ELSE Ok(Range(At(l.grapheme_starts, n - 1), At(l.grapheme_ends, n - 1) + 1))

\* Line::text_index_to_grapheme
text_index_to_grapheme(l, text_index) ==
    IF l.grapheme_count = 0 THEN 0
    ELSE IF text_index > ByteLen(l.text) THEN l.grapheme_count - 1
    ELSE LET hits == {idx \in 0..(l.grapheme_count - 1) :
                         /\ At(l.grapheme_ends, idx) >= text_index
                         /\ At(l.grapheme_starts, idx) <= text_index}
         IN IF hits = {} THEN l.grapheme_count - 1
            ELSE CHOOSE idx \in hits : \A j \in hits : idx <= j

\* Line::split_line, a mutant: the remainder is returned but the receiver is
\* not truncated
split_line_NoTruncate(l, index) ==
    IF ~IsCharBoundary(l.text, index) THEN Panic
    ELSE Ok([self |-> l, ret |-> from_string(StrFrom(l.text, index))])

\* Line::split_line: val.self is the receiver afterwards, val.ret the Line returned
split_line(l, index) ==
    IF ~IsCharBoundary(l.text, index) THEN Panic
    ELSE Ok([self |-> [l EXCEPT !.text = StrTo(l.text, index)],
             ret |-> from_string(StrFrom(l.text, index))])

\* Line::split_line_grapheme
split_line_grapheme(l, grapheme_index) ==
    IF grapheme_index >= Len(l.grapheme_starts) THEN Panic
    ELSE split_line(l, At(l.grapheme_starts, grapheme_index))

-----------------------------------------------------------------------------
(* Buffer *)

\* the byte offset of the first line terminator of s, as Regex::new("\n").find
\* reports it: <<offset>>, or <<>> when there is none
FindNewline(s) ==
    LET hits == {i \in 1..Len(s) : s[i] = "LF"}
    IN IF hits = {} THEN <<>>
       ELSE <<ByteOf(s, CHOOSE i \in hits : \A j \in hits : i <= j)>>

\* strip_suffix('\r')
StripCR(s) == IF s # <<>> /\ s[Len(s)] = "CR" THEN SubSeq(s, 1, Len(s) - 1) ELSE s

\* str::lines: the lines of s, each ended by "\n" or "\r\n" or by the end of s;
\* a "\r" that no "\n" follows stays in its line
RECURSIVE StrLines(_)
StrLines(s) ==
    IF s = <<>> THEN <<>>
    ELSE LET f == FindNewline(s)
         IN IF f = <<>> THEN <<s>>
            ELSE <<StripCR(StrTo(s, f[1]))>> \o StrLines(StrFrom(s, f[1] + 1))

\* a file of the file system: none at the path, or one with its permissions
\* and its content ("" also stands for bytes that are not UTF-8 when
\* readable is FALSE)
NoFile == [exists |-> FALSE, readable |-> FALSE, writable |-> TRUE, content |-> <<>>]

\* Buffer::from_file, the file_str it builds: a mutant in which a file that is
\* missing or cannot be read is a failure
read_file_Propagates(d, file_path) ==
    IF d[file_path].exists /\ d[file_path].readable
    THEN Ok(d[file_path].content) ELSE Panic

\* Buffer::from_file, the file_str it builds from the file at file_path
read_file(d, file_path) ==
    IF d[file_path].exists
    THEN IF d[file_path].readable THEN Ok(d[file_path].content) ELSE Ok(<<>>)
    ELSE Ok(<<>>)

\* Buffer::from_file on a file that holds file_str ("" when it cannot be read)
from_file(file_str) ==
    LET ls == StrLines(file_str)
    IN [text |-> [i \in 1..Len(ls) |-> from_string(ls[i])], num_lines |-> Len(ls)]

\* Buffer::lines_to_str, the bytes write_file writes
RECURSIVE LinesToStrFrom(_, _)
LinesToStrFrom(b, idx) ==
    IF idx >= b.num_lines THEN Ok(<<>>)
    ELSE IF idx >= Len(b.text) THEN Panic
    ELSE LET rest == LinesToStrFrom(b, idx + 1)
         IN IF ~rest.ok THEN Panic
            ELSE Ok(At(b.text, idx).text \o <<"LF">> \o rest.val)

\* Buffer::lines_to_str, a mutant: the lines are joined by "\n" and no
\* terminator follows the last one
lines_to_str_Join(b) ==
    LET r == LinesToStrFrom(b, 0)
    IN IF r.ok /\ r.val # <<>> THEN Ok(SubSeq(r.val, 1, Len(r.val) - 1)) ELSE r

lines_to_str(b) == LinesToStrFrom(b, 0)

\* Buffer::write_file of Buffer b with path p on the file system d: the file
\* system afterwards and whether Err was returned.  File::create truncates the
\* file before lines_to_str runs.
write_file(b, p, d) ==
    IF p \notin DOMAIN d \/ ~d[p].writable THEN Ok([disk |-> d, err |-> TRUE])
    ELSE LET str == lines_to_str(b)
             readable == IF d[p].exists THEN d[p].readable ELSE TRUE
         IN IF ~str.ok THEN Panic
            ELSE Ok([disk |-> [d EXCEPT ![p] = [exists |-> TRUE, readable |-> readable,
                                                writable |-> TRUE, content |-> str.val]],
                     err |-> FALSE])

SetLine(b, i, l) == [b EXCEPT !.text[i + 1] = l]

\* Buffer::insert_char
buffer_insert_char(b, ln, grapheme_index, character) ==
    IF ln >= Len(b.text) THEN Panic
    ELSE LET r == insert_char(At(b.text, ln), grapheme_index, character)
         IN IF ~r.ok THEN Panic ELSE Ok(SetLine(b, ln, r.val))

\* Buffer::delete_char, a mutant: the line is removed but num_lines is kept
delete_char_KeepsNumLines(b, ln, grapheme_index) ==
    IF ln >= Len(b.text) THEN Panic
    ELSE IF At(b.text, ln).text = <<>> THEN
        Ok([b EXCEPT !.text = VecRemove(b.text, ln)])
    ELSE LET r == delete_grapheme(At(b.text, ln), grapheme_index)
         IN IF ~r.ok THEN Panic ELSE Ok(SetLine(b, ln, r.val))

\* Buffer::delete_char
delete_char(b, ln, grapheme_index) ==
    IF ln >= Len(b.text) THEN Panic
    ELSE IF At(b.text, ln).text = <<>> THEN
        IF b.num_lines = 0 /\ debug_build THEN Panic
        ELSE Ok([text |-> VecRemove(b.text, ln), num_lines |-> WrapSub(b.num_lines, 1)])
    ELSE LET r == delete_grapheme(At(b.text, ln), grapheme_index)
         IN IF ~r.ok THEN Panic ELSE Ok(SetLine(b, ln, r.val))

\* Buffer::new_line
new_line(b, ln, grapheme_index) ==
    IF ln >= b.num_lines THEN
        Ok([text |-> Append(b.text, from_string(<<>>)), num_lines |-> b.num_lines + 1])
    ELSE IF ln >= Len(b.text) THEN Panic
    ELSE LET r == split_line_grapheme(At(b.text, ln), grapheme_index)
         IN IF ~r.ok THEN Panic
            ELSE Ok([text |-> VecInsert(SetLine(b, ln, r.val.self).text, ln, r.val.ret),
                     num_lines |-> b.num_lines + 1])

\* Buffer::fix_newlines, one pass of the loop body, up to "idx += 1"
FixNewlinesBody(b, idx) ==
    LET start == FindNewline(At(b.text, idx).text)
        sp == split_line(At(b.text, idx), start[1])
        newline == delete_grapheme(sp.val.ret, 0)
    IN IF start = <<>> THEN Ok(b)
       ELSE IF ~sp.ok THEN Panic
       ELSE IF ~newline.ok THEN Panic
       ELSE Ok([text |-> VecInsert(SetLine(b, idx, sp.val.self).text,
                                   idx + 1, newline.val),
                num_lines |-> b.num_lines + 1])

\* Buffer::fix_newlines, the loop from index idx on
RECURSIVE FixNewlinesFrom(_, _)
FixNewlinesFrom(b, idx) ==
    LET b2 == FixNewlinesBody(b, idx)
    IN IF ~b2.ok THEN Panic
       ELSE IF idx + 1 >= Len(b2.val.text) THEN b2
       ELSE FixNewlinesFrom(b2.val, idx + 1)

fix_newlines(b) == IF Len(b.text) = 0 THEN Ok(b) ELSE FixNewlinesFrom(b, 0)

\* &text[a..=b] of a String: the slice panics unless a and b + 1 are char
\* boundaries with a <= b + 1
SliceInclusive(text, a, b) ==
    IF IsCharBoundary(text, a) /\ IsCharBoundary(text, b + 1) /\ a <= b + 1
    THEN Ok(StrRange(text, a, b + 1)) ELSE Panic

\* Buffer::copy_text on one row, a mutant: the slice ends before end_byte, the
\* last byte of the end grapheme
CopySameRow_ExclusiveEnd(b, start_position, end_position) ==
    LET row == At(b.text, start_position.row)
        start_byte == grapheme_start(row, start_position.grapheme)
        end_byte == grapheme_end(row, end_position.grapheme)
    IN IF ~start_byte.ok \/ ~end_byte.ok THEN Panic
       ELSE IF end_byte.val = 0 THEN Ok(<<>>)
       ELSE SliceInclusive(row.text, start_byte.val, end_byte.val - 1)

\* Buffer::copy_text, start_position.row == end_position.row
CopySameRow(b, start_position, end_position) ==
    LET row == At(b.text, start_position.row)
        start_byte == grapheme_start(row, start_position.grapheme)
        end_byte == grapheme_end(row, end_position.grapheme)
    IN IF ~start_byte.ok \/ ~end_byte.ok THEN Panic
       ELSE SliceInclusive(row.text, start_byte.val, end_byte.val)

\* Buffer::copy_text over several rows: &text[start_byte..] of the start row,
\* the rows between, and &text[..=end_byte] of the start row, joined by "\n"
CopyRows(b, start_position, end_position) ==
    LET srow == At(b.text, start_position.row)
        erow == At(b.text, end_position.row)
        start_byte == grapheme_start(srow, start_position.grapheme)
        end_byte == grapheme_end(erow, end_position.grapheme)
    IN IF ~start_byte.ok \/ ~end_byte.ok THEN Panic
       ELSE IF /\ IsCharBoundary(srow.text, start_byte.val)
               /\ IsCharBoundary(srow.text, end_byte.val + 1)
       THEN LET RECURSIVE Middle(_)
                Middle(idx) ==
                    IF idx >= end_position.row THEN <<>>
                    ELSE At(b.text, idx).text \o <<"LF">> \o Middle(idx + 1)
            IN Ok(StrFrom(srow.text, start_byte.val) \o <<"LF">>
                  \o Middle(start_position.row + 1)
                  \o StrTo(srow.text, end_byte.val + 1))
       ELSE Panic

\* Buffer::copy_text
copy_text(b, start_position, end_position) ==
    IF start_position.row >= Len(b.text) \/ end_position.row >= Len(b.text) THEN Panic
    ELSE IF start_position.row = end_position.row
         THEN CopySameRow(b, start_position, end_position)
    ELSE CopyRows(b, start_position, end_position)

\* Buffer::paste_text
paste_text(b, start_position, s) ==
    IF start_position.row >= Len(b.text) THEN Panic
    ELSE LET r == insert_str(At(b.text, start_position.row), start_position.grapheme, s)
         IN IF ~r.ok THEN Panic
            ELSE fix_newlines(SetLine(b, start_position.row, r.val))

\* the checked subtraction "a - b" of usize: a panic with overflow checks,
\* a wrapped value without
USub(a, b) ==
    IF a >= b THEN Ok(a - b) ELSE IF debug_build THEN Panic ELSE Ok(a - b + UsizeModulus)

\* the checked addition "a + b" of usize
UAdd(a, b) ==
    IF a + b < UsizeModulus THEN Ok(a + b)
    ELSE IF debug_build THEN Panic ELSE Ok((a + b) % UsizeModulus)

\* Buffer::print_line
print_line(b, ln, start_grapheme, end_grapheme, highlighted) ==
    IF ln >= Len(b.text) THEN Panic
    ELSE
    LET l == At(b.text, ln)
        last_g == USub(l.grapheme_count, 1)
    IN IF ~last_g.ok THEN Panic
       ELSE IF start_grapheme >= last_g.val THEN Ok(<<>>)
       ELSE LET end_g == IF end_grapheme >= last_g.val THEN last_g.val ELSE end_grapheme
                start_byte == grapheme_start(l, start_grapheme).val
                end_byte == grapheme_start(l, end_g).val
            IN IF /\ IsCharBoundary(l.text, start_byte)
                  /\ IsCharBoundary(l.text, end_byte + 1)
                  /\ start_byte <= end_byte + 1
               THEN Ok(StrRange(l.text, start_byte, end_byte + 1))
               ELSE Panic

-----------------------------------------------------------------------------
(* Screen *)

\* Boundary::default
BoundaryTop == 0
BoundaryRight == 0
BoundaryLeft == 4
BoundaryBottom == 2

\* r, and then f of its value, unless r panicked
Then(r, f(_)) == IF r.ok THEN f(r.val) ELSE Panic

\* Screen::view_width
view_width(s) ==
    Then(USub(s.size.width, BoundaryLeft), LAMBDA x : USub(x, BoundaryRight))

\* Screen::view_height
view_height(s) ==
    Then(USub(s.size.height, BoundaryTop), LAMBDA x : USub(x, BoundaryBottom))

\* Screen::scroll_vertical, a mutant: the cursor's row is made the first row
\* of the window in every call
scroll_vertical_Always(s) ==
    Then(view_height(s), LAMBDA vh :
        Ok([s EXCEPT !.scroll_offset.row = s.text_position.row]))

\* Screen::scroll_vertical
scroll_vertical(s) ==
    LET row == s.text_position.row
        off == s.scroll_offset.row
    IN Then(view_height(s), LAMBDA vh :
        IF SatSub(row, off) > vh THEN
            Then(USub(row, off), LAMBDA d :
            Then(USub(d, vh), LAMBDA n : Ok([s EXCEPT !.scroll_offset.row = n])))
        ELSE IF row < off THEN Ok([s EXCEPT !.scroll_offset.row = row])
        ELSE Ok(s))

\* Screen::scroll_horizontal
scroll_horizontal(s) ==
    LET g == s.text_position.grapheme
        off == s.scroll_offset.col
    IN Then(view_width(s), LAMBDA vw :
        IF SatSub(g, off) > vw THEN
            Then(USub(g, off), LAMBDA d :
            Then(USub(d, vw), LAMBDA n : Ok([s EXCEPT !.scroll_offset.col = n])))
        ELSE IF g < off THEN Ok([s EXCEPT !.scroll_offset.col = g])
        ELSE Ok(s))

\* Screen::sync_screen_position
sync_screen_position(s) ==
    Then(USub(s.text_position.grapheme, s.scroll_offset.col), LAMBDA dc :
    Then(UAdd(dc, BoundaryLeft), LAMBDA col :
    Then(USub(s.text_position.row, s.scroll_offset.row), LAMBDA dr :
    Then(UAdd(dr, BoundaryTop), LAMBDA row :
        Ok([s EXCEPT !.screen_location = [row |-> row, col |-> col]])))))

\* Screen::scroll_into_view (followed in every caller by Terminal::move_caret_to,
\* which only writes to the terminal)
scroll_into_view(s) ==
    Then(scroll_vertical(s), LAMBDA s1 :
    Then(scroll_horizontal(s1), LAMBDA s2 : sync_screen_position(s2)))

\* self.buffer.text[row]
RowLine(s, row) == IF row < Len(s.buffer.text) THEN Ok(At(s.buffer.text, row)) ELSE Panic

\* Screen::sync_text_position_byte_to_grapheme
sync_text_position_byte_to_grapheme(s) ==
    Then(RowLine(s, s.text_position.row), LAMBDA l :
    Then(IF s.text_position.grapheme >= l.grapheme_count
         THEN USub(l.grapheme_count, 1) ELSE Ok(s.text_position.grapheme), LAMBDA g :
        Ok([s EXCEPT !.text_position.grapheme = g,
                     !.text_position.byte = grapheme_start(l, g).val])))

\* Screen::move_up
move_up(s) ==
    LET s1 == IF s.text_position.row > 0
              THEN [s EXCEPT !.text_position.row = s.text_position.row - 1] ELSE s
    IN Then(sync_text_position_byte_to_grapheme(s1), LAMBDA s2 : scroll_into_view(s2))

\* Screen::move_down
move_down(s) ==
    LET s1 == IF s.text_position.row < SatSub(s.buffer.num_lines, 1)
              THEN [s EXCEPT !.text_position.row = s.text_position.row + 1] ELSE s
    IN Then(sync_text_position_byte_to_grapheme(s1), LAMBDA s2 : scroll_into_view(s2))

\* Screen::move_left
move_left(s) ==
    IF s.text_position.grapheme > 0 THEN
        Then(RowLine(s, s.text_position.row), LAMBDA l :
            LET g == SatSub(s.text_position.grapheme, 1)
            IN scroll_into_view([s EXCEPT !.text_position.grapheme = g,
                                          !.text_position.byte = grapheme_start(l, g).val]))
    ELSE scroll_into_view(s)

\* Screen::move_right
move_right(s) ==
    Then(RowLine(s, s.text_position.row), LAMBDA l :
        IF s.text_position.grapheme < SatSub(l.grapheme_count, 1) THEN
            LET g == s.text_position.grapheme + 1
            IN scroll_into_view([s EXCEPT !.text_position.grapheme = g,
                                          !.text_position.byte = grapheme_start(l, g).val])
        ELSE scroll_into_view(s))

\* Screen::move_end_line
move_end_line(s) ==
    Then(RowLine(s, s.text_position.row), LAMBDA l :
        LET line_length == l.grapheme_count
        IN scroll_into_view(IF line_length > 0
                            THEN [s EXCEPT !.text_position.grapheme = line_length - 1]
                            ELSE s))

\* Screen::move_start_line
move_start_line(s) == scroll_into_view([s EXCEPT !.text_position.grapheme = 0])

\* Screen::move_first_line
move_first_line(s) ==
    Then(sync_text_position_byte_to_grapheme([s EXCEPT !.text_position.row = 0]),
         LAMBDA s2 : scroll_into_view(s2))

\* Screen::move_last_line
move_last_line(s) ==
    Then(sync_text_position_byte_to_grapheme(
             [s EXCEPT !.text_position.row = SatSub(s.buffer.num_lines, 1)]),
         LAMBDA s2 : scroll_into_view(s2))

\* a match of WORD_REGEX, \w|[(){}\-+&=]: letters and marks are \w
IsWordChar(c) == c \in {"a", "HWAIR", "ACUTE", "LPAREN"}

WordOffsets(str) == {ByteOf(str, i) : i \in {j \in 1..Len(str) : IsWordChar(str[j])}}

\* WORD_REGEX.find(str): <<start of the first match>>, or <<>>
FindWord(str) ==
    LET w == WordOffsets(str)
    IN IF w = {} THEN <<>> ELSE <<CHOOSE x \in w : \A y \in w : x <= y>>

\* WORD_REGEX.find_iter(str).last(): <<start of the last match>>, or <<>>
FindLastWord(str) ==
    LET w == WordOffsets(str)
    IN IF w = {} THEN <<>> ELSE <<CHOOSE x \in w : \A y \in w : x >= y>>

\* the cursor moved to byte `start`, the grapheme looked up in line l
WordHit(s, l, start) ==
    [s EXCEPT !.text_position.byte = start,
              !.text_position.grapheme = text_index_to_grapheme(l, start)]

\* Screen::move_next_word
move_next_word(s) ==
    Then(RowLine(s, s.text_position.row), LAMBDA l :
        IF ~IsCharBoundary(l.text, s.text_position.byte) THEN Panic
        ELSE
        LET m == FindWord(StrFrom(l.text, s.text_position.byte))
            rows == {r \in s.text_position.row..(s.buffer.num_lines - 1) :
                        r >= Len(s.buffer.text) \/ FindWord(At(s.buffer.text, r).text) # <<>>}
            cur_line == CHOOSE r \in rows : \A q \in rows : r <= q
        IN IF m # <<>> THEN scroll_into_view(WordHit(s, l, m[1]))
           ELSE IF rows = {} THEN scroll_into_view(s)
           ELSE IF cur_line >= Len(s.buffer.text) THEN Panic
           ELSE scroll_into_view(
                    WordHit(s, l, FindWord(At(s.buffer.text, cur_line).text)[1])))

\* Screen::move_prev_word
move_prev_word(s) ==
    Then(RowLine(s, s.text_position.row), LAMBDA l :
        IF ~IsCharBoundary(l.text, s.text_position.byte) THEN Panic
        ELSE
        LET m == FindLastWord(StrTo(l.text, s.text_position.byte))
            rows == {r \in 0..s.text_position.row :
                        FindLastWord(At(s.buffer.text, r).text) # <<>>}
            cur_line == CHOOSE r \in rows : \A q \in rows : r >= q
        IN IF m # <<>> THEN scroll_into_view(WordHit(s, l, m[1]))
           ELSE IF rows = {} THEN scroll_into_view(s)
           ELSE scroll_into_view(
                    WordHit(s, l, FindLastWord(At(s.buffer.text, cur_line).text)[1])))

\* Screen::delete_grapheme
screen_delete_grapheme(s, location) ==
    Then(delete_char(s.buffer, location.row, location.grapheme), LAMBDA b :
        Ok([s EXCEPT !.buffer = b]))

\* NormalViewer::draw: draw_text prints every buffer line of the window with
\* print_line (the rows below the buffer get "~"); nothing of the Screen changes
draw(s) ==
    Then(view_height(s), LAMBDA vh :
    Then(view_width(s), LAMBDA vw :
        IF \E ln \in 0..(s.buffer.num_lines - 1) :
              /\ ln >= s.scroll_offset.row
              /\ ln - s.scroll_offset.row < vh
              /\ ~print_line(s.buffer, ln, s.scroll_offset.col,
                             WrapAdd(s.scroll_offset.col, vw), FALSE).ok
        THEN Panic ELSE Ok(s)))

-----------------------------------------------------------------------------
(* KeyReader: a string of the input buffer is the sequence of its characters, *)
(* all of them ASCII                                                          *)

\* char::is_digit(10)
IsDigit(c) == c \in {"0", "1", "2", "3", "4", "5", "6", "7", "8", "9"}

\* char::to_digit(10) of a digit
DigitValue(c) ==
    CASE c = "0" -> 0 [] c = "1" -> 1 [] c = "2" -> 2 [] c = "3" -> 3 [] c = "4" -> 4
      [] c = "5" -> 5 [] c = "6" -> 6 [] c = "7" -> 7 [] c = "8" -> 8 [] c = "9" -> 9

\* the loop of strip_digits: the byte offset behind the leading run of digits
\* of in_string (every character here is one byte long)
RECURSIVE DigitsEnd(_, _)
DigitsEnd(in_string, i) ==
    IF i < Len(in_string) /\ IsDigit(in_string[i + 1]) THEN DigitsEnd(in_string, i + 1)
    ELSE i

\* the decimal value of a string of digits
RECURSIVE Decimal(_)
Decimal(digits) ==
    IF digits = <<>> THEN 0
    ELSE 10 * Decimal(SubSeq(digits, 1, Len(digits) - 1)) + DigitValue(digits[Len(digits)])

U16Max == 65535

\* str::parse::<u16>() followed by expect: a panic for the empty string and
\* for a value above u16::MAX
ParseU16(digits) ==
    IF digits = <<>> THEN Panic
    ELSE IF Decimal(digits) > U16Max THEN Panic
    ELSE Ok(Decimal(digits))

\* KeyReader::strip_digits (digits is a prefix of in_string, so strip_prefix
\* always returns Some)
strip_digits(in_string) ==
    LET index == DigitsEnd(in_string, 0)
        digits == SubSeq(in_string, 1, index)
    IN Then(ParseU16(digits), LAMBDA parsed_digits :
        Ok([num |-> parsed_digits, rest |-> SubSeq(in_string, index + 1, Len(in_string))]))

\* KeyMap::default, the normal-mode map
NormalKeyMap ==
    (<<"w">> :> "MoveUp") @@ (<<"a">> :> "MoveLeft") @@ (<<"s">> :> "MoveDown")
    @@ (<<"d">> :> "MoveRight") @@ (<<"S", "p", "a", "c", "e">> :> "EnterJump")

\* what normal_mode appends to the input buffer for the modifiers of an event
ModifierName(modifiers) ==
    CASE modifiers = "CONTROL" -> <<"C", "t", "r", "l", "-">>
      [] modifiers = "ALT" -> <<"A", "l", "t", "-">>
      [] OTHER -> <<>>

\* what normal_mode appends to the input buffer for the key code of an event
CodeName(ev) ==
    CASE ev.code = "Char" -> <<ev.ch>>
      [] ev.code = "Left" -> <<"L", "e", "f", "t">>
      [] ev.code = "Null" -> <<>>

\* KeyReader::normal_mode on the input buffer ib: the input buffer afterwards
\* and the Option<Action> returned (`strip` is the strip_digits call made)
normal_mode(ib, ev) ==
    LET pushed == ib \o ModifierName(ev.modifiers)
    IN IF ev.code = "Esc"
       THEN Ok([input_buffer |-> <<>>, strip |-> <<>>,
                ret |-> <<[action_type |-> "EnterNormal", action_param |-> "None"]>>])
       ELSE LET buf == pushed \o CodeName(ev)
            IN Then(strip_digits(buf), LAMBDA sd :
                Ok([input_buffer |-> buf,
                    strip |-> <<[arg |-> buf, num |-> sd.num, rest |-> sd.rest]>>,
                    ret |-> IF sd.rest \in DOMAIN NormalKeyMap
                            THEN <<[action_type |-> NormalKeyMap[sd.rest],
                                    action_param |-> sd.num]>>
                            ELSE <<>>]))

-----------------------------------------------------------------------------
(* Values of the variables a specification does not use *)

EmptyLine == NewLine(<<>>, 0, <<>>, <<>>)

NoLast == [op |-> "none", at |-> 0, arg |-> <<>>, pre |-> EmptyLine,
           undo |-> <<>>, ret |-> <<>>, was_split |-> FALSE]

\* Buffer::empty
empty == [text |-> <<>>, num_lines |-> 0]

\* `to` is the end position and `ret` the string returned, of a copy_text or
\* print_line call; `highlighted` is the flag passed to print_line, `err` is TRUE when write_file returned Err
NoBLast == [op |-> "none", line |-> 0, at |-> 0, arg |-> <<>>, nops |-> 0,
            to |-> [row |-> 0, byte |-> 0, grapheme |-> 0], ret |-> <<>>,
            highlighted |-> FALSE, err |-> FALSE]

LineIdle == line = EmptyLine /\ last = NoLast

BufferIdle == buffer = empty /\ blast = NoBLast

ScreenIdle ==
    /\ size = [height |-> 0, width |-> 0]
    /\ text_position = [row |-> 0, byte |-> 0, grapheme |-> 0]
    /\ scroll_offset = [row |-> 0, col |-> 0]
    /\ screen_location = [row |-> 0, col |-> 0]
    /\ pc = "none"
    /\ key = "none"

RtIdle == rt = [pc |-> "none"]

\* PathBuf::new(), the path of Buffer::empty()
NoPath == "none"

FileIdle == disk = <<>> /\ path = NoPath

\* `strip` is <<[arg, num, rest]>> for the strip_digits call made, `ret` is
\* <<action>> when normal_mode returned Some(action)
NoKLast == [event |-> [code |-> "none", ch |-> "", modifiers |-> "NONE"],
            strip |-> <<>>, ret |-> <<>>]

KeyIdle == input_buffer = <<>> /\ klast = NoKLast

\* fix_newlines is not running: `pc` is "idle", "entry", "loop" or "returned"
NoLoop == [pc |-> "idle", idx |-> 0, splits |-> 0, terminators |-> 0]

LoopIdle == loop = NoLoop

lineVars == <<line, last>>
bufferVars == <<buffer, blast>>
screenVars == <<size, text_position, scroll_offset, screen_location, pc, key>>
fileVars == <<disk, path>>
keyVars == <<input_buffer, klast>>

-----------------------------------------------------------------------------
(* The Line specification: one Line, built by from_string and then edited  *)

LineInit ==
    /\ debug_build \in BOOLEAN
    /\ panicked = FALSE
    /\ \E s \in StringsUpTo(Chars, MaxLen) :
          /\ line = from_string(s)
          /\ last = [NoLast EXCEPT !.op = "from_string", !.arg = s]
    /\ BufferIdle /\ ScreenIdle /\ RtIdle /\ FileIdle /\ KeyIdle /\ LoopIdle

\* the effect of one Line operation with result r (r.val the receiver afterwards);
\* a Line is followed up to its first split or panic
LineApply(op, at, arg, r, undo, ret, split) ==
    /\ ~panicked /\ ~last.was_split
    /\ panicked' = ~r.ok
    /\ line' = IF r.ok THEN r.val ELSE line
    /\ last' = [op |-> op, at |-> at, arg |-> arg, pre |-> line,
                undo |-> undo,
                ret |-> IF r.ok THEN ret ELSE <<>>,
                was_split |-> last.was_split \/ (split /\ r.ok)]
    /\ UNCHANGED <<debug_build, bufferVars, screenVars, rt, fileVars, keyVars, loop>>

LineInsertChar ==
    \E at \in 0..(line.grapheme_count + 1), ch \in Chars :
        /\ Len(line.text) < MaxLen /\ line.grapheme_count < MaxLen
        /\ LineApply("insert_char", at, <<ch>>, insert_char(line, at, ch),
                     IF insert_char(line, at, ch).ok /\ ~last.was_split
                     THEN <<line>> ELSE <<>>,
                     <<>>, FALSE)

LineInsertStr ==
    \E at \in 0..line.grapheme_count, s \in StringsUpTo(Chars, MaxStr) :
        /\ Len(line.text) + Len(s) <= MaxLen /\ line.grapheme_count + Len(s) <= MaxLen
        /\ LineApply("insert_str", at, s, insert_str(line, at, s), <<>>, <<>>, FALSE)

\* after insert_char, last.undo holds the (valid) Line from before it; after a
\* delete_grapheme at the same index that directly follows, it still does
LineDeleteGrapheme ==
    \E at \in 0..line.grapheme_count :
        LineApply("delete_grapheme", at, <<>>, delete_grapheme(line, at),
                  IF last.op = "insert_char" /\ last.at = at THEN last.undo ELSE <<>>,
                  <<>>, FALSE)

LineSplitLine ==
    \E index \in 0..(ByteLen(line.text) + 1) :
        LET r == split_line(line, index)
        IN LineApply("split_line", index, <<>>,
                     IF r.ok THEN Ok(r.val.self) ELSE Panic, <<>>,
                     IF r.ok THEN <<r.val.ret>> ELSE <<>>, TRUE)

LineSplitLineGrapheme ==
    \E g \in 0..line.grapheme_count :
        LET r == split_line_grapheme(line, g)
        IN LineApply("split_line_grapheme", g, <<>>,
                     IF r.ok THEN Ok(r.val.self) ELSE Panic, <<>>,
                     IF r.ok THEN <<r.val.ret>> ELSE <<>>, TRUE)

LineNext ==
    \/ LineInsertChar
    \/ LineInsertStr
    \/ LineDeleteGrapheme
    \/ LineSplitLine
    \/ LineSplitLineGrapheme

SpecLine == LineInit /\ [][LineNext]_vars

\* the Line invariant of the data model: both arrays have grapheme_count
\* entries, the ranges [starts[i], ends[i]] are non-empty, in order, start at
\* byte 0 and tile [0, byte length) without gap or overlap
LineInv(l) ==
    LET n == l.grapheme_count
        s == l.grapheme_starts
        e == l.grapheme_ends
    IN /\ Len(s) = n /\ Len(e) = n
       /\ (n = 0) <=> (l.text = <<>>)
       /\ n > 0 => s[1] = 0 /\ e[n] + 1 = ByteLen(l.text)
       /\ \A i \in 1..n : s[i] <= e[i]
       /\ \A i \in 1..(n - 1) : s[i] < s[i + 1] /\ e[i] < e[i + 1] /\ e[i] + 1 = s[i + 1]

\* C1: a Line built by from_string reads back the input string, and after any
\* sequence of insert_char, insert_str and delete_grapheme calls that returned,
\* the boundary arrays have grapheme_count entries, are strictly increasing,
\* start at 0 and partition [0, byte length of text).
C1_BoundaryPartition ==
    (~panicked /\ ~last.was_split) =>
        /\ LineInv(line)
        /\ last.op = "from_string" => line.text = last.arg

\* C1 witness: a delete_grapheme has just removed a grapheme from a Line that
\* still holds a multi-byte cluster of two code points
C1_Witness ==
    /\ ~panicked /\ ~last.was_split
    /\ last.op = "delete_grapheme" /\ line.grapheme_count < last.pre.grapheme_count
    /\ Len(line.text) > line.grapheme_count
    /\ \E i \in 1..line.grapheme_count :
           line.grapheme_ends[i] - line.grapheme_starts[i] >= 2

\* C2: after split_line or split_line_grapheme on a valid Line, the truncated
\* receiver still satisfies the Line invariant: its count and arrays describe
\* exactly the prefix text that is left.
C2_SplitReceiverValid ==
    (~panicked /\ last.op \in {"split_line", "split_line_grapheme"} /\ LineInv(last.pre)) =>
        /\ LineInv(line)
        /\ line.grapheme_count = Len(grapheme_indices(line.text))

\* C10: insert_char(at, ch) followed by delete_grapheme(at) returns and
\* restores text, grapheme_count, grapheme_starts and grapheme_ends.
C10_InsertDeleteInverse ==
    (last.op = "delete_grapheme" /\ last.undo # <<>>) =>
        ~panicked /\ line = last.undo[1]

\* the byte offset at which grapheme `at` of Line l starts: the byte length of
\* the text when at is the grapheme count
InsertionByte(l, at) ==
    IF at >= l.grapheme_count THEN ByteLen(l.text) ELSE At(l.grapheme_starts, at)

\* Line nl is Line l with the string s, of the graphemes ins (a Line built from
\* s alone), put in before grapheme `at`: the text is the first `at` graphemes,
\* s, and the rest; the entries before `at` are kept, the entries of ins follow
\* at the insertion byte, and the entries from `at` on are moved up by the byte
\* length of s
InsertedAt(l, nl, at, s, ins) ==
    LET b == InsertionByte(l, at)
        k == ins.grapheme_count
        d == ByteLen(s)
    IN /\ nl.text = StrTo(l.text, b) \o s \o StrFrom(l.text, b)
       /\ nl.grapheme_count = l.grapheme_count + k
       /\ Len(nl.grapheme_starts) = nl.grapheme_count
       /\ Len(nl.grapheme_ends) = nl.grapheme_count
       /\ \A i \in 1..at : /\ nl.grapheme_starts[i] = l.grapheme_starts[i]
                           /\ nl.grapheme_ends[i] = l.grapheme_ends[i]
       /\ \A j \in 1..k : /\ nl.grapheme_starts[at + j] = ins.grapheme_starts[j] + b
                          /\ nl.grapheme_ends[at + j] = ins.grapheme_ends[j] + b
       /\ \A i \in (at + 1)..l.grapheme_count :
              /\ nl.grapheme_starts[i + k] = l.grapheme_starts[i] + d
              /\ nl.grapheme_ends[i + k] = l.grapheme_ends[i] + d

\* the one entry [0, len(ch) - 1] of a character on its own
CharEntry(ch) == NewLine(<<ch>>, 1, <<0>>, <<len_utf8(ch) - 1>>)

C12_InsertStrContract ==
    (last.op = "insert_str" /\ last.at <= last.pre.grapheme_count) =>
        /\ ~panicked
        /\ InsertedAt(last.pre, line, last.at, last.arg, from_string(last.arg))

\* Line nl is Line l without grapheme `at` (at < count): the bytes of that
\* grapheme are gone from the text, the entries before `at` are kept and the
\* entries after it are moved down by its byte length
DeletedAt(l, nl, at) ==
    LET s == At(l.grapheme_starts, at)
        e == At(l.grapheme_ends, at)
        d == e - s + 1
    IN /\ nl.text = StrTo(l.text, s) \o StrFrom(l.text, e + 1)
       /\ nl.grapheme_count = l.grapheme_count - 1
       /\ Len(nl.grapheme_starts) = nl.grapheme_count
       /\ Len(nl.grapheme_ends) = nl.grapheme_count
       /\ \A i \in 1..at : /\ nl.grapheme_starts[i] = l.grapheme_starts[i]
                           /\ nl.grapheme_ends[i] = l.grapheme_ends[i]
       /\ \A i \in (at + 2)..l.grapheme_count :
              /\ nl.grapheme_starts[i - 1] = l.grapheme_starts[i] - d
              /\ nl.grapheme_ends[i - 1] = l.grapheme_ends[i] - d

\* C13: delete_grapheme(at) returns; with at < count it removes the bytes of
\* grapheme `at`, takes one off the count, keeps the entries before `at` and
\* moves the later ones down by the removed length; with at >= count it
\* changes nothing.
C13_DeleteGraphemeContract ==
    (last.op = "delete_grapheme") =>
        /\ ~panicked
        /\ IF last.at >= last.pre.grapheme_count THEN line = last.pre
           ELSE DeletedAt(last.pre, line, last.at)

\* the last call split the Line before grapheme g < count: by
\* split_line_grapheme(g), or by split_line at the byte where g starts
SplitBeforeGrapheme(g) ==
    /\ g < last.pre.grapheme_count
    /\ \/ last.op = "split_line_grapheme" /\ last.at = g
       \/ last.op = "split_line" /\ last.at = At(last.pre.grapheme_starts, g)

-----------------------------------------------------------------------------
(* The query specification: a Line built by from_string, and any sequence   *)
(* of its read-only queries                                                 *)

QueryInit == LineInit

\* the grapheme indices asked for: every valid one, the count, and two past it
QueryGraphemes == 0..(line.grapheme_count + 2)

\* the byte indices asked for: every byte of the text, its length, and two past it
QueryBytes == 0..(ByteLen(line.text) + 2)

\* the effect of one query with result r: the Line is not changed
QueryApply(op, i, r) ==
    /\ ~panicked
    /\ panicked' = ~r.ok
    /\ last' = [NoLast EXCEPT !.op = op, !.at = i, !.pre = line,
                              !.ret = IF r.ok THEN <<r.val>> ELSE <<>>]
    /\ UNCHANGED <<debug_build, line, bufferVars, screenVars, rt, fileVars, keyVars, loop>>

QueryGraphemeStart ==
    \E i \in QueryGraphemes : QueryApply("grapheme_start", i, grapheme_start(line, i))

QueryGraphemeEnd ==
    \E i \in QueryGraphemes : QueryApply("grapheme_end", i, grapheme_end(line, i))

QueryNextGraphemeStart ==
    \E i \in QueryGraphemes :
        QueryApply("next_grapheme_start", i, next_grapheme_start(line, i))

QueryPrevGraphemeStart ==
    \E i \in QueryGraphemes :
        QueryApply("prev_grapheme_start", i, prev_grapheme_start(line, i))

QueryNextGraphemeEnd ==
    \E i \in QueryGraphemes :
        QueryApply("next_grapheme_end", i, next_grapheme_end(line, i))

QueryPrevGraphemeEnd ==
    \E i \in QueryGraphemes :
        QueryApply("prev_grapheme_end", i, prev_grapheme_end(line, i))

QueryTextIndexToGrapheme ==
    \E b \in QueryBytes :
        QueryApply("text_index_to_grapheme", b, Ok(text_index_to_grapheme(line, b)))

QueryTextIndexToGraphemeRange ==
    \E b \in QueryBytes :
        QueryApply("text_index_to_grapheme_range", b, text_index_to_grapheme_range(line, b))

QueryNext ==
    \/ QueryGraphemeStart
    \/ QueryGraphemeEnd
    \/ QueryNextGraphemeStart
    \/ QueryPrevGraphemeStart
    \/ QueryNextGraphemeEnd
    \/ QueryPrevGraphemeEnd
    \/ QueryTextIndexToGrapheme
    \/ QueryTextIndexToGraphemeRange

SpecQuery == QueryInit /\ [][QueryNext]_vars

\* the queries that answer with a byte offset, and all queries
OffsetQueries == {"grapheme_start", "grapheme_end", "next_grapheme_start",
                  "prev_grapheme_start", "next_grapheme_end", "prev_grapheme_end"}

Queries == OffsetQueries \cup {"text_index_to_grapheme", "text_index_to_grapheme_range"}

\* C15: on an empty Line (grapheme_count = 0) every query returns, with byte or
\* index 0 (the range 0..0 for text_index_to_grapheme_range), for every
\* argument.
C15_EmptyLineQueries ==
    (last.op \in Queries /\ line.grapheme_count = 0) =>
        /\ ~panicked
        /\ last.ret = IF last.op = "text_index_to_grapheme_range"
                      THEN <<Range(0, 0)>> ELSE <<0>>

\* C15 witness: grapheme_end was asked for an index past 0 on an empty Line
C15_Witness ==
    /\ last.op = "grapheme_end" /\ line.grapheme_count = 0 /\ last.at > 0
    /\ ~panicked

\* C16: on a non-empty Line grapheme_start, grapheme_end, next_grapheme_start,
\* next_grapheme_end, prev_grapheme_start and prev_grapheme_end return for
\* every index, also one at or past the count (and count - 1 for next_*).
C16_OffsetQueriesNeverFail ==
    (last.op \in OffsetQueries /\ line.grapheme_count > 0) => ~panicked

\* the grapheme of Line l whose byte range holds byte b, for b inside the text
GraphemeHolding(l, b) ==
    CHOOSE g \in 0..(l.grapheme_count - 1) :
        At(l.grapheme_starts, g) <= b /\ b <= At(l.grapheme_ends, g)

\* the grapheme the text-index queries are to answer for: the one holding b,
\* or the last one when b is past the text
GraphemeFor(l, b) ==
    IF b < ByteLen(l.text) THEN GraphemeHolding(l, b) ELSE l.grapheme_count - 1

\* C17: on a non-empty Line, text_index_to_grapheme(b) is the grapheme g whose
\* byte range holds b and text_index_to_grapheme_range(b) is starts[g] ..
\* ends[g] + 1; for b past the text both answer for the last grapheme.
C17_TextIndexQueries ==
    (last.op \in {"text_index_to_grapheme", "text_index_to_grapheme_range"}
     /\ line.grapheme_count > 0) =>
        LET g == GraphemeFor(line, last.at)
        IN /\ ~panicked
           /\ last.ret = IF last.op = "text_index_to_grapheme" THEN <<g>>
                         ELSE <<Range(At(line.grapheme_starts, g),
                                      At(line.grapheme_ends, g) + 1)>>

\* position p0 is not after position p1
PosLeq(p0, p1) == p0.row < p1.row \/ (p0.row = p1.row /\ p0.grapheme <= p1.grapheme)

-----------------------------------------------------------------------------
(* The Buffer specification: a Buffer, loaded from a file (or empty) and    *)
(* then edited through its public operations                                *)

\* the contents of the files loaded: none (a missing file), "aa", "a\na",
\* "a€\n", "\n", "a\n\n€a", "€a\naaa"
BufFiles ==
    { <<>>,
      <<"a", "a">>,
      <<"a", "LF", "a">>,
      <<"a", "EURO", "LF">>,
      <<"LF">>,
      <<"a", "LF", "LF", "EURO", "a">>,
      <<"EURO", "a", "LF", "a", "a", "a">> }

\* the characters typed
BufChars == {"a", "LF", "EURO"}

\* the strings pasted: "", "a", "\n", "€\na", "\n\n", "a\n"
PasteStrings ==
    { <<>>, <<"a">>, <<"LF">>, <<"EURO", "LF", "a">>, <<"LF", "LF">>, <<"a", "LF">> }

BufferInit ==
    /\ debug_build \in BOOLEAN
    /\ panicked = FALSE
    /\ \E f \in BufFiles : buffer = from_file(f)
    /\ blast = NoBLast
    /\ LineIdle /\ ScreenIdle /\ RtIdle /\ FileIdle /\ KeyIdle /\ LoopIdle

\* the effect of one Buffer operation with result r
BufferApply(op, ln, at, arg, r) ==
    /\ ~panicked
    /\ blast.nops < MaxOps
    /\ panicked' = ~r.ok
    /\ buffer' = IF r.ok THEN r.val ELSE buffer
    /\ blast' = [NoBLast EXCEPT !.op = op, !.line = ln, !.at = at, !.arg = arg,
                                !.nops = blast.nops + 1]
    /\ UNCHANGED <<debug_build, lineVars, screenVars, rt, fileVars, keyVars, loop>>

\* the grapheme indices tried on line ln: every valid one and the first invalid one
GraphemesOf(b, ln) ==
    IF ln < Len(b.text) THEN 0..(At(b.text, ln).grapheme_count + 1) ELSE {0}

BufInsertChar ==
    \E ln \in 0..buffer.num_lines : \E g \in GraphemesOf(buffer, ln), ch \in BufChars :
        BufferApply("insert_char", ln, g, <<ch>>, buffer_insert_char(buffer, ln, g, ch))

BufDeleteChar ==
    \E ln \in 0..buffer.num_lines : \E g \in GraphemesOf(buffer, ln) :
        BufferApply("delete_char", ln, g, <<>>, delete_char(buffer, ln, g))

BufNewLine ==
    \E ln \in 0..buffer.num_lines : \E g \in GraphemesOf(buffer, ln) :
        BufferApply("new_line", ln, g, <<>>, new_line(buffer, ln, g))

BufPasteText ==
    \E ln \in 0..buffer.num_lines : \E g \in GraphemesOf(buffer, ln) :
      \E s \in PasteStrings :
        BufferApply("paste_text", ln, g, s,
                    paste_text(buffer, [row |-> ln, byte |-> 0, grapheme |-> g], s))

BufferNext ==
    \/ BufInsertChar
    \/ BufDeleteChar
    \/ BufNewLine
    \/ BufPasteText

SpecBuffer == BufferInit /\ [][BufferNext]_vars

\* b holds a line whose text contains a line terminator
HasEmbeddedNewline(b) ==
    \E i \in 1..Len(b.text) : \E j \in 1..Len(b.text[i].text) : b.text[i].text[j] = "LF"

\* C3: in every state reached from Buffer::empty() or from_file by insert_char,
\* delete_char, new_line and paste_text, num_lines is the length of `text`.
C3_NumLinesIsLength == buffer.num_lines = Len(buffer.text)

\* C3 witness: a paste_text whose string holds a terminator has split a line
\* of a Buffer that already had two lines
C3_Witness ==
    /\ ~panicked /\ blast.op = "paste_text"
    /\ \E i \in 1..Len(blast.arg) : blast.arg[i] = "LF"
    /\ buffer.num_lines = 3

\* C4: after every completed Buffer operation (insert_char with any character,
\* delete_char, new_line, paste_text with any string) no Line's text contains
\* a line terminator.
C4_NoEmbeddedNewline == ~HasEmbeddedNewline(buffer)

\* the texts of the lines of b
Texts(b) == [i \in 1..Len(b.text) |-> b.text[i].text]

\* Buffer b is well formed: num_lines is the number of lines and every line
\* satisfies the Line invariant
BufferValid(b) ==
    /\ b.num_lines = Len(b.text)
    /\ \A i \in 1..Len(b.text) : LineInv(b.text[i])

\* a step that calls op on a well-formed Buffer, with a line index below num_lines
CallsOnLine(op) ==
    /\ blast'.op = op /\ blast'.nops = blast.nops + 1
    /\ BufferValid(buffer)
    /\ blast'.line < buffer.num_lines

\* C18: delete_char(line, g) with line < num_lines returns; on an empty line it
\* removes that line, num_lines falls by one and the other lines keep content
\* and order; on a non-empty line (g < count) num_lines and the other lines
\* stay and the line loses exactly grapheme g.
C18_DeleteCharContract ==
    [][CallsOnLine("delete_char") =>
          LET ln == blast'.line
              g == blast'.at
              target == At(buffer.text, ln)
          IN IF target.text = <<>>
             THEN /\ ~panicked'
                  /\ buffer'.num_lines = buffer.num_lines - 1
                  /\ buffer'.text = VecRemove(buffer.text, ln)
             ELSE g < target.grapheme_count =>
                  /\ ~panicked'
                  /\ buffer'.num_lines = buffer.num_lines
                  /\ Len(buffer'.text) = Len(buffer.text)
                  /\ \A i \in 0..(Len(buffer.text) - 1) :
                         i # ln => At(buffer'.text, i) = At(buffer.text, i)
                  /\ DeletedAt(target, At(buffer'.text, ln), g)]_vars

\* C19: new_line(line, g) with line >= num_lines appends an empty line;
\* otherwise (g < count) line `line` keeps the text before grapheme g, the rest
\* becomes the line at index line + 1, the other lines keep their order, and
\* num_lines grows by one.
C19_NewLineContract ==
    [][(blast'.op = "new_line" /\ blast'.nops = blast.nops + 1 /\ BufferValid(buffer)) =>
          LET ln == blast'.line
              g == blast'.at
          IN IF ln >= buffer.num_lines
             THEN /\ ~panicked'
                  /\ buffer'.num_lines = buffer.num_lines + 1
                  /\ Texts(buffer') = Append(Texts(buffer), <<>>)
             ELSE g < At(buffer.text, ln).grapheme_count =>
                  LET target == At(buffer.text, ln)
                      b == At(target.grapheme_starts, g)
                  IN /\ ~panicked'
                     /\ buffer'.num_lines = buffer.num_lines + 1
                     /\ Texts(buffer') =
                            SubSeq(Texts(buffer), 1, ln)
                            \o <<StrTo(target.text, b), StrFrom(target.text, b)>>
                            \o SubSeq(Texts(buffer), ln + 2, Len(buffer.text))]_vars

\* the pieces of s between its line terminators: k + 1 pieces for k terminators
RECURSIVE SplitAtTerminators(_)
SplitAtTerminators(s) ==
    LET f == FindNewline(s)
    IN IF f = <<>> THEN <<s>>
       ELSE <<StrTo(s, f[1])>> \o SplitAtTerminators(StrFrom(s, f[1] + 1))

\* the number of line terminators of s
Terminators(s) == Cardinality({i \in 1..Len(s) : s[i] = "LF"})

\* C22: paste_text(position, s) on a well-formed Buffer without embedded
\* terminators, at a grapheme position of an existing line, where s holds k
\* terminators: the call returns, num_lines has grown by exactly k, no line
\* holds a terminator, and the lines are those before the row, the pieces of
\* the row's text with s inserted at the position, split at every terminator,
\* and the lines after the row.
C22_PasteTextContract ==
    [][(/\ CallsOnLine("paste_text")
        /\ ~HasEmbeddedNewline(buffer)
        /\ blast'.at <= At(buffer.text, blast'.line).grapheme_count) =>
          LET ln == blast'.line
              s == blast'.arg
              target == At(buffer.text, ln)
              b == InsertionByte(target, blast'.at)
              joined == StrTo(target.text, b) \o s \o StrFrom(target.text, b)
          IN /\ ~panicked'
             /\ buffer'.num_lines = buffer.num_lines + Terminators(s)
             /\ ~HasEmbeddedNewline(buffer')
             /\ Texts(buffer') =
                    SubSeq(Texts(buffer), 1, ln)
                    \o SplitAtTerminators(joined)
                    \o SubSeq(Texts(buffer), ln + 2, Len(buffer.text))]_vars

\* C37: on a well-formed Buffer, new_line(line, g) with line < num_lines and
\* g = grapheme_count (the end of the line, or an empty line with g = 0)
\* returns: the target line keeps all its text, a new empty line follows it,
\* the other lines keep their order, and num_lines grows by one.
C37_NewLineAtEnd ==
    [][(/\ CallsOnLine("new_line")
        /\ blast'.at = At(buffer.text, blast'.line).grapheme_count) =>
          LET ln == blast'.line
          IN /\ ~panicked'
             /\ buffer'.num_lines = buffer.num_lines + 1
             /\ Texts(buffer') =
                    SubSeq(Texts(buffer), 1, ln + 1)
                    \o << <<>> >>
                    \o SubSeq(Texts(buffer), ln + 2, Len(buffer.text))]_vars

-----------------------------------------------------------------------------
(* The copy specification: a Buffer loaded from a file, edited by            *)
(* insert_char and delete_char, and read by copy_text                        *)

\* copy_text(start_position, end_position): the Buffer is not changed
BufCopyText ==
    \E r0 \in 0..(buffer.num_lines - 1), r1 \in 0..(buffer.num_lines - 1) :
      \E g0 \in GraphemesOf(buffer, r0), g1 \in GraphemesOf(buffer, r1) :
        LET p0 == [row |-> r0, byte |-> 0, grapheme |-> g0]
            p1 == [row |-> r1, byte |-> 0, grapheme |-> g1]
            r == copy_text(buffer, p0, p1)
        IN /\ ~panicked
           /\ blast.nops < MaxOps
           /\ PosLeq(p0, p1)
           /\ panicked' = ~r.ok
           /\ blast' = [NoBLast EXCEPT !.op = "copy_text", !.line = r0, !.at = g0,
                                       !.to = p1, !.nops = blast.nops + 1,
                                       !.ret = IF r.ok THEN <<r.val>> ELSE <<>>]
           /\ UNCHANGED <<debug_build, buffer, lineVars, screenVars, rt, fileVars, keyVars, loop>>

CopyNext ==
    \/ BufInsertChar
    \/ BufDeleteChar
    \/ BufCopyText

SpecCopy == BufferInit /\ [][CopyNext]_vars

RECURSIVE RowsBetween(_, _, _)
RowsBetween(b, r0, r1) ==
    IF r0 + 1 >= r1 THEN <<>>
    ELSE At(b.text, r0 + 1).text \o <<"LF">> \o RowsBetween(b, r0 + 1, r1)

\* C21: on a Buffer whose lines satisfy the Line invariant, copy_text(start,
\* end) with start.row < end.row (both graphemes inside their rows) returns the
\* start row's text from grapheme start.grapheme to its end, every row strictly
\* between in order, and the END row's text from its beginning through grapheme
\* end.grapheme, with exactly one line terminator between consecutive rows.
C21_CopyRowsUsesEndRow ==
    [][(/\ blast'.op = "copy_text" /\ blast'.nops = blast.nops + 1
        /\ BufferValid(buffer)
        /\ blast'.line < blast'.to.row
        /\ blast'.at < At(buffer.text, blast'.line).grapheme_count
        /\ blast'.to.grapheme < At(buffer.text, blast'.to.row).grapheme_count) =>
          LET srow == At(buffer.text, blast'.line)
              erow == At(buffer.text, blast'.to.row)
          IN /\ ~panicked'
             /\ blast'.ret =
                  <<StrFrom(srow.text, At(srow.grapheme_starts, blast'.at))
                    \o <<"LF">>
                    \o RowsBetween(buffer, blast'.line, blast'.to.row)
                    \o StrTo(erow.text, At(erow.grapheme_ends, blast'.to.grapheme) + 1)>>]_vars

-----------------------------------------------------------------------------
(* The print specification: a Buffer loaded from a file, edited by          *)
(* insert_char and delete_char, and rendered line by line with print_line   *)

\* print_line(line, start_grapheme, end_grapheme, highlighted): the Buffer is
\* not changed
BufPrintLine ==
    \E ln \in 0..(buffer.num_lines - 1) :
      \E start_g \in GraphemesOf(buffer, ln), end_g \in GraphemesOf(buffer, ln) :
        \E highlighted \in BOOLEAN :
          LET r == print_line(buffer, ln, start_g, end_g, highlighted)
          IN /\ ~panicked
             /\ blast.nops < MaxOps
             /\ start_g <= end_g
             /\ panicked' = ~r.ok
             /\ blast' = [NoBLast EXCEPT !.op = "print_line", !.line = ln, !.at = start_g,
                                         !.to.grapheme = end_g, !.nops = blast.nops + 1,
                                         !.highlighted = highlighted,
                                         !.ret = IF r.ok THEN <<r.val>> ELSE <<>>]
             /\ UNCHANGED <<debug_build, buffer, lineVars, screenVars, rt, fileVars, keyVars, loop>>

PrintNext ==
    \/ BufInsertChar
    \/ BufDeleteChar
    \/ BufPrintLine

SpecPrint == BufferInit /\ [][PrintNext]_vars

\* C23: on a well-formed Buffer, print_line(line, start_g, end_g, highlighted)
\* of a non-empty line with start_g <= end_g returns the empty string exactly
\* when start_g > grapheme_count - 1, and otherwise the whole graphemes start_g
\* through min(end_g, grapheme_count - 1), whatever `highlighted` is.
C23_PrintLineContract ==
    [][(/\ CallsOnLine("print_line")
        /\ At(buffer.text, blast'.line).grapheme_count > 0) =>
          LET l == At(buffer.text, blast'.line)
              start_g == blast'.at
              end_g == Min(blast'.to.grapheme, l.grapheme_count - 1)
          IN /\ ~panicked'
             /\ blast'.ret =
                  IF start_g > l.grapheme_count - 1 THEN << <<>> >>
                  ELSE <<StrRange(l.text, At(l.grapheme_starts, start_g),
                                  At(l.grapheme_ends, end_g) + 1)>>]_vars

\* C36: on a well-formed Buffer, print_line on a line with no graphemes
\* returns the empty string, without failing, for every start_g and end_g.
C36_PrintEmptyLine ==
    [][(/\ CallsOnLine("print_line")
        /\ At(buffer.text, blast'.line).grapheme_count = 0) =>
          /\ ~panicked'
          /\ blast'.ret = << <<>> >>]_vars

-----------------------------------------------------------------------------
(* The file specification: a file system, a Buffer loaded from it with      *)
(* from_file, edited, and written back with write_file                      *)

\* the paths: "f" holds any file, "g" none or a small readable one
Paths == {"f", "g"}

\* the contents of the files: "", "a", "a\n", "\n", "a€\r\n\na", "a\r"
FileContents ==
    { <<>>, <<"a">>, <<"a", "LF">>, <<"LF">>,
      <<"a", "EURO", "CR", "LF", "LF", "a">>, <<"a", "CR">> }

\* the files at path "f": none, one that cannot be read, or a readable one
FilesAtF ==
    {NoFile}
    \cup {[exists |-> TRUE, readable |-> FALSE, writable |-> w, content |-> <<>>] :
             w \in BOOLEAN}
    \cup {[exists |-> TRUE, readable |-> TRUE, writable |-> w, content |-> c] :
             w \in BOOLEAN, c \in FileContents}

FilesAtG == {NoFile, [exists |-> TRUE, readable |-> TRUE, writable |-> TRUE,
                      content |-> <<"a">>]}

FileInit ==
    /\ debug_build \in BOOLEAN
    /\ panicked = FALSE
    /\ \E f \in FilesAtF, g \in FilesAtG : disk = [p \in Paths |-> IF p = "f" THEN f ELSE g]
    /\ buffer = empty
    /\ path = NoPath
    /\ blast = NoBLast
    /\ LineIdle /\ ScreenIdle /\ RtIdle /\ KeyIdle /\ LoopIdle

\* Buffer::from_file(file_path): the Buffer is replaced by the one loaded (the
\* edits and writes are counted in blast.nops, the loads are not)
FileFromFile ==
    \E file_path \in Paths :
        LET r == Then(read_file(disk, file_path), LAMBDA file_str : Ok(from_file(file_str)))
        IN /\ ~panicked
           /\ panicked' = ~r.ok
           /\ buffer' = IF r.ok THEN r.val ELSE buffer
           /\ path' = IF r.ok THEN file_path ELSE path
           /\ blast' = [NoBLast EXCEPT !.op = "from_file", !.nops = blast.nops]
           /\ UNCHANGED <<debug_build, lineVars, screenVars, rt, disk, keyVars, loop>>

\* Buffer::write_file
FileWriteFile ==
    LET r == write_file(buffer, path, disk)
    IN /\ ~panicked
       /\ blast.nops < MaxOps
       /\ panicked' = ~r.ok
       /\ disk' = IF r.ok THEN r.val.disk
                  ELSE [disk EXCEPT ![path].exists = TRUE, ![path].content = <<>>]
       /\ blast' = [NoBLast EXCEPT !.op = "write_file", !.nops = blast.nops + 1,
                                   !.err = r.ok /\ r.val.err]
       /\ UNCHANGED <<debug_build, buffer, path, lineVars, screenVars, rt, keyVars, loop>>

FileNext ==
    \/ FileFromFile
    \/ BufInsertChar
    \/ BufDeleteChar
    \/ FileWriteFile

SpecFile == FileInit /\ [][FileNext]_vars

\* the lines of a file: the pieces between its terminators "\n" and "\r\n",
\* the last one only when the file does not end with a terminator
LinesOfFile(c) ==
    LET pieces == SplitAtTerminators(c)
        n == Len(pieces)
        whole == IF pieces[n] = <<>> THEN n - 1 ELSE n
    IN [i \in 1..whole |-> IF i < n THEN StripCR(pieces[i]) ELSE pieces[i]]

\* C24: Buffer::from_file on a path whose file is missing or cannot be read
\* returns, without a failure, a Buffer with no lines and num_lines 0 that
\* records the path; on a readable file it returns one Line per line of the
\* file, in order, with num_lines their number.
C24_FromFileContract ==
    [][blast'.op = "from_file" =>
          /\ ~panicked'
          /\ path' \in Paths
          /\ IF ~disk[path'].exists \/ ~disk[path'].readable
             THEN buffer'.text = <<>> /\ buffer'.num_lines = 0
             ELSE LET ls == LinesOfFile(disk[path'].content)
                  IN /\ buffer'.num_lines = Len(ls)
                     /\ buffer'.text = [i \in 1..Len(ls) |-> from_string(ls[i])]]_vars

\* C24 witness: from_file has returned for a path whose file exists and cannot
\* be read, and the Buffer has no lines and records that path
C24_Witness ==
    /\ ~panicked /\ blast.op = "from_file" /\ path = "f"
    /\ disk["f"].exists /\ ~disk["f"].readable
    /\ buffer.num_lines = 0 /\ buffer.text = <<>>

\* the texts ts in order, each followed by one line terminator
RECURSIVE EachTerminated(_)
EachTerminated(ts) ==
    IF ts = <<>> THEN <<>>
    ELSE EachTerminated(SubSeq(ts, 1, Len(ts) - 1)) \o ts[Len(ts)] \o <<"LF">>

\* C25: a write_file that returns Ok leaves in the file at the Buffer's path
\* the texts of lines 0..num_lines-1 in order, each followed by exactly one
\* line terminator: the output ends with a terminator when there is a line, it
\* holds exactly num_lines terminators when no line has an embedded one, and
\* the Buffer is unchanged.
C25_WriteFileContract ==
    [][(blast'.op = "write_file" /\ blast'.nops = blast.nops + 1 /\ ~blast'.err) =>
          LET out == disk'[path].content
          IN /\ ~panicked'
             /\ disk'[path].exists
             /\ out = EachTerminated(SubSeq(Texts(buffer), 1, buffer.num_lines))
             /\ buffer.num_lines > 0 => out[Len(out)] = "LF"
             /\ ~HasEmbeddedNewline(buffer) => Terminators(out) = buffer.num_lines
             /\ buffer' = buffer /\ path' = path]_vars

\* C25 witness: a Buffer of three lines, one of them empty and one with a
\* character of several bytes, has been written to a file that did exist
C25_Witness ==
    /\ ~panicked /\ blast.op = "write_file" /\ ~blast.err
    /\ buffer.num_lines = 3
    /\ disk[path].content = <<"a", "EURO", "LF", "LF", "a", "LF">>

\* C39: a Buffer whose lines hold no line terminator has been written with
\* write_file to a readable file; from_file of that file yields a Buffer with
\* the same num_lines and the same line texts in the same order (empty lines,
\* an empty Buffer and lines that end in a carriage return included).
C39_SaveLoadRoundTrip ==
    [][(/\ blast.op = "write_file" /\ ~blast.err /\ ~panicked
        /\ blast'.op = "from_file" /\ path' = path
        /\ disk[path].readable
        /\ ~HasEmbeddedNewline(buffer)) =>
          /\ ~panicked'
          /\ buffer'.num_lines = buffer.num_lines
          /\ Texts(buffer') = Texts(buffer)]_vars

-----------------------------------------------------------------------------
(* The paste specification: a Buffer loaded from a file, and paste_text run *)
(* step by step: the insert_str, the entry of fix_newlines and each pass of *)
(* its loop                                                                 *)

\* the number of line terminators held by the lines of b
RECURSIVE TerminatorsFrom(_, _)
TerminatorsFrom(b, i) ==
    IF i > Len(b.text) THEN 0
    ELSE Terminators(b.text[i].text) + TerminatorsFrom(b, i + 1)

FixInit ==
    /\ debug_build \in BOOLEAN
    /\ panicked = FALSE
    /\ \E c \in FileContents : buffer = from_file(c)
    /\ blast = NoBLast
    /\ loop = NoLoop
    /\ LineIdle /\ ScreenIdle /\ RtIdle /\ FileIdle /\ KeyIdle

\* Buffer::paste_text, up to the call of fix_newlines
FixInsertStr ==
    \E ln \in 0..buffer.num_lines : \E g \in GraphemesOf(buffer, ln) :
      \E s \in PasteStrings :
        LET r == IF ln >= Len(buffer.text) THEN Panic
                 ELSE insert_str(At(buffer.text, ln), g, s)
            pasted == SetLine(buffer, ln, r.val)
        IN /\ ~panicked
           /\ loop.pc \in {"idle", "returned"}
           /\ blast.nops < MaxOps
           /\ panicked' = ~r.ok
           /\ buffer' = IF r.ok THEN pasted ELSE buffer
           /\ blast' = [NoBLast EXCEPT !.op = "paste_text", !.line = ln, !.at = g,
                                       !.arg = s, !.nops = blast.nops + 1]
           /\ loop' = IF r.ok
                      THEN [pc |-> "entry", idx |-> 0, splits |-> 0,
                            terminators |-> TerminatorsFrom(pasted, 1)]
                      ELSE loop
           /\ UNCHANGED <<debug_build, lineVars, screenVars, rt, fileVars, keyVars>>

\* Buffer::fix_newlines, the early return and "let mut idx = 0usize"
FixEnter ==
    /\ ~panicked
    /\ loop.pc = "entry"
    /\ loop' = IF Len(buffer.text) = 0 THEN [loop EXCEPT !.pc = "returned"]
               ELSE [loop EXCEPT !.pc = "loop", !.idx = 0]
    /\ UNCHANGED <<debug_build, panicked, lineVars, bufferVars, screenVars, rt,
                   fileVars, keyVars>>

\* Buffer::fix_newlines, one pass of the loop
FixIterate ==
    LET r == FixNewlinesBody(buffer, loop.idx)
    IN /\ ~panicked
       /\ loop.pc = "loop"
       /\ panicked' = ~r.ok
       /\ buffer' = IF r.ok THEN r.val ELSE buffer
       /\ loop' = IF ~r.ok THEN loop
                  ELSE [loop EXCEPT
                           !.idx = loop.idx + 1,
                           !.splits = loop.splits + (r.val.num_lines - buffer.num_lines),
                           !.pc = IF loop.idx + 1 >= Len(r.val.text) THEN "returned"
                                  ELSE "loop"]
       /\ UNCHANGED <<debug_build, blast, lineVars, screenVars, rt, fileVars, keyVars>>

FixNext ==
    \/ FixInsertStr
    \/ FixEnter
    \/ FixIterate

SpecFix == FixInit /\ [][FixNext]_vars

\* the passes fix_newlines has left at most: one for each line from idx on,
\* and two for each terminator in them (the pass that splits at it adds a line)
FixVariant == 2 * TerminatorsFrom(buffer, loop.idx + 1) + (Len(buffer.text) - loop.idx)

\* C40: the pass of fix_newlines that paste_text starts terminates and
\* returns: each pass of its loop completes and leaves fewer passes to make,
\* and at the return it has made exactly one split for each terminator the
\* Buffer held on entry.
C40_FixNewlinesReturns ==
    [][(loop.pc = "loop" /\ ~panicked) =>
          /\ ~panicked'
          /\ FixVariant' >= 0
          /\ FixVariant' < FixVariant
          /\ loop'.pc = "returned" => loop'.splits = loop.terminators]_vars

-----------------------------------------------------------------------------
(* The key specification: a KeyReader with an empty input buffer and the    *)
(* default key map, fed key events in normal mode                           *)

\* the characters typed
KeyChars == {"1", "6", "w", "s"}

\* the key events read: characters, plain or with Ctrl, and Esc, Left, Null
KeyEvents ==
    {[code |-> "Char", ch |-> c, modifiers |-> m] : c \in KeyChars, m \in {"NONE", "CONTROL"}}
    \cup {[code |-> k, ch |-> "", modifiers |-> "NONE"] : k \in {"Esc", "Left", "Null"}}

KeyInit ==
    /\ debug_build \in BOOLEAN
    /\ panicked = FALSE
    /\ input_buffer = <<>>
    /\ klast = NoKLast
    /\ LineIdle /\ BufferIdle /\ ScreenIdle /\ RtIdle /\ FileIdle /\ LoopIdle

\* KeyReader::read_input(key_event, Mode::Normal)
KeyNormalMode ==
    \E ev \in KeyEvents :
        LET r == normal_mode(input_buffer, ev)
        IN /\ ~panicked
           /\ Len(input_buffer) < MaxInput
           /\ panicked' = ~r.ok
           /\ input_buffer' = IF r.ok THEN r.val.input_buffer
                              ELSE input_buffer \o ModifierName(ev.modifiers) \o CodeName(ev)
           /\ klast' = [event |-> ev,
                        strip |-> IF r.ok THEN r.val.strip ELSE <<>>,
                        ret |-> IF r.ok THEN r.val.ret ELSE <<>>]
           /\ UNCHANGED <<debug_build, lineVars, bufferVars, screenVars, rt, fileVars, loop>>

KeyNext == KeyNormalMode

SpecKeys == KeyInit /\ [][KeyNext]_vars

\* C34: for every string the input buffer holds when normal_mode calls
\* strip_digits, the call does not fail and returns (n, rest): rest is the
\* string without its longest leading run of decimal digits and n the value of
\* that run, or 0 when there is no leading digit.
C34_StripDigits ==
    klast.event.code \notin {"none", "Esc"} =>
        /\ ~panicked
        /\ Len(klast.strip) = 1
        /\ LET sd == klast.strip[1]
               run == DigitsEnd(sd.arg, 0)
           IN /\ sd.arg = input_buffer
              /\ sd.rest = SubSeq(sd.arg, run + 1, Len(sd.arg))
              /\ sd.num = IF run = 0 THEN 0 ELSE Decimal(SubSeq(sd.arg, 1, run))

\* C38: after normal_mode has returned Some(Action), for Esc or for a key
\* sequence found in the normal key map, the input buffer is empty.
C38_InputBufferCleared ==
    (~panicked /\ klast.ret # <<>>) => input_buffer = <<>>

-----------------------------------------------------------------------------
(* The Screen specification: a Screen made by Screen::default(), a file     *)
(* loaded into it, and then any sequence of its movement operations         *)

\* the 16-line file "a\na\n...a\n"
TallLines == 16
TallFile == [i \in 1..(2 * TallLines) |-> IF i % 2 = 1 THEN "a" ELSE "LF"]

\* the contents of the files loaded: none (a missing file), "aaa", "a\na\na",
\* "aa\n\na", "a €a\n (", "  \naaa\n€", "áa", and the 16-line file
ScreenFiles ==
    { <<>>,
      <<"a", "a", "a">>,
      <<"a", "LF", "a", "LF", "a">>,
      <<"a", "a", "LF", "LF", "a">>,
      <<"a", "SP", "EURO", "a", "LF", "SP", "LPAREN">>,
      <<"SP", "SP", "LF", "a", "a", "a", "LF", "EURO">>,
      <<"a", "ACUTE", "a">>,
      TallFile }

\* the terminal sizes: 0 x 0 (the fallback of Screen::default when the size
\* query fails), and sizes with a view of 1 x 1, 2 x 2 and 10 x 76
ScreenSizes ==
    { [height |-> 0, width |-> 0],
      [height |-> 3, width |-> 5],
      [height |-> 4, width |-> 6],
      [height |-> 12, width |-> 80] }

\* the Screen held by the variables
Scr == [buffer |-> buffer, text_position |-> text_position,
        scroll_offset |-> scroll_offset, screen_location |-> screen_location,
        size |-> size]

\* Screen::default followed by Screen::load_file of one of `files`
ScreenLoaded(files) ==
    /\ debug_build \in BOOLEAN
    /\ panicked = FALSE
    /\ size \in ScreenSizes
    /\ \E f \in files : buffer = from_file(f)
    /\ blast = NoBLast
    /\ text_position = [row |-> 0, byte |-> 0, grapheme |-> 0]
    /\ scroll_offset = [row |-> 0, col |-> 0]
    /\ screen_location = [row |-> 0, col |-> 0]
    /\ key = "none"
    /\ LineIdle /\ RtIdle /\ FileIdle /\ KeyIdle /\ LoopIdle

ScreenInit == ScreenLoaded(ScreenFiles) /\ pc = "none"

\* the cursor column has wrapped around (count - 1 on an empty line, without
\* overflow checks)
WalkedOff == text_position.grapheme >= UsizeModulus \div 2

\* the effect of one Screen operation with result r; a Screen is followed up
\* to its first panic or wrapped cursor column
ScreenApply(op, r) ==
    /\ ~panicked
    /\ ~WalkedOff
    /\ panicked' = ~r.ok
    /\ key' = op
    /\ buffer' = IF r.ok THEN r.val.buffer ELSE buffer
    /\ text_position' = IF r.ok THEN r.val.text_position ELSE text_position
    /\ scroll_offset' = IF r.ok THEN r.val.scroll_offset ELSE scroll_offset
    /\ screen_location' = IF r.ok THEN r.val.screen_location ELSE screen_location
    /\ UNCHANGED <<debug_build, lineVars, blast, size, rt, fileVars, keyVars, loop>>

MoveUp == ScreenApply("move_up", move_up(Scr)) /\ UNCHANGED pc
MoveDown == ScreenApply("move_down", move_down(Scr)) /\ UNCHANGED pc
MoveLeft == ScreenApply("move_left", move_left(Scr)) /\ UNCHANGED pc
MoveRight == ScreenApply("move_right", move_right(Scr)) /\ UNCHANGED pc
MoveStartLine == ScreenApply("move_start_line", move_start_line(Scr)) /\ UNCHANGED pc
MoveEndLine == ScreenApply("move_end_line", move_end_line(Scr)) /\ UNCHANGED pc
MoveFirstLine == ScreenApply("move_first_line", move_first_line(Scr)) /\ UNCHANGED pc
MoveLastLine == ScreenApply("move_last_line", move_last_line(Scr)) /\ UNCHANGED pc
MoveNextWord == ScreenApply("move_next_word", move_next_word(Scr)) /\ UNCHANGED pc
MovePrevWord == ScreenApply("move_prev_word", move_prev_word(Scr)) /\ UNCHANGED pc

ScreenNext ==
    \/ MoveUp
    \/ MoveDown
    \/ MoveLeft
    \/ MoveRight
    \/ MoveStartLine
    \/ MoveEndLine
    \/ MoveFirstLine
    \/ MoveLastLine
    \/ MoveNextWord
    \/ MovePrevWord

SpecScreen == ScreenInit /\ [][ScreenNext]_vars

\* the terminal is at least as large as the boundary, so that view_width and
\* view_height do not underflow
SizeFits ==
    /\ size.width >= BoundaryLeft + BoundaryRight
    /\ size.height >= BoundaryTop + BoundaryBottom

\* the cursor of Screen s is on a line of the buffer and on a grapheme of that
\* line (on grapheme 0 when the line is empty)
CursorInBounds(s) ==
    /\ s.text_position.row < s.buffer.num_lines
    /\ s.text_position.row < Len(s.buffer.text)
    /\ LET count == At(s.buffer.text, s.text_position.row).grapheme_count
       IN IF count = 0 THEN s.text_position.grapheme = 0
          ELSE s.text_position.grapheme < count

\* the byte cache of Screen s is the start of the cursor's grapheme
ByteSynced(s) ==
    s.text_position.byte =
        grapheme_start(At(s.buffer.text, s.text_position.row), s.text_position.grapheme).val

\* C5: on a non-empty buffer no movement operation fails, and after it the
\* cursor satisfies row < num_lines and grapheme < grapheme_count of its line
\* (grapheme = 0 on an empty line).
C5_MovementInBounds ==
    (buffer.num_lines > 0 /\ SizeFits) => ~panicked /\ CursorInBounds(Scr)

\* C6: after every movement operation returns, text_position.byte is
\* grapheme_start(text_position.grapheme) of the line at text_position.row.
C6_ByteCacheSynced ==
    (key # "none" /\ ~panicked /\ CursorInBounds(Scr)) => ByteSynced(Scr)

\* C7: after scroll_into_view at the end of a movement operation the cursor is
\* inside the window on both axes: scroll_offset.row <= row < scroll_offset.row
\* + view_height() and scroll_offset.col <= grapheme < scroll_offset.col +
\* view_width().
C7_CursorInsideWindow ==
    (key # "none" /\ ~panicked /\ SizeFits /\ CursorInBounds(Scr)) =>
        /\ scroll_offset.row <= text_position.row
        /\ text_position.row < scroll_offset.row + view_height(Scr).val
        /\ scroll_offset.col <= text_position.grapheme
        /\ text_position.grapheme < scroll_offset.col + view_width(Scr).val

\* the row a vertical movement op goes to from row `row` of a Buffer of
\* num_lines > 0 lines
DestinationRow(op, row, num_lines) ==
    CASE op = "move_up" -> IF row > 0 THEN row - 1 ELSE row
      [] op = "move_down" -> IF row < num_lines - 1 THEN row + 1 ELSE row
      [] op = "move_first_line" -> 0
      [] op = "move_last_line" -> num_lines - 1

VerticalMoves == {"move_up", "move_down", "move_first_line", "move_last_line"}

\* C26: move_up, move_down, move_first_line and move_last_line, from a cursor
\* that is on a grapheme of its line, return with the cursor on the destination
\* line at grapheme min(previous grapheme, count - 1), and at grapheme 0 when
\* the destination line is empty; no column is remembered.
C26_RaggedVerticalMove ==
    [][(/\ key' \in VerticalMoves
        /\ ~panicked /\ ~WalkedOff
        /\ SizeFits /\ CursorInBounds(Scr)) =>
          LET dest == DestinationRow(key', text_position.row, buffer.num_lines)
              count == At(buffer.text, dest).grapheme_count
          IN /\ ~panicked'
             /\ text_position'.row = dest
             /\ text_position'.grapheme =
                    IF count = 0 THEN 0 ELSE Min(text_position.grapheme, count - 1)]_vars

\* C27: scroll_into_view, run at the end of every movement operation on the
\* cursor that operation has set, does not scroll an axis on which the cursor
\* is already visible: scroll_offset.row is unchanged when scroll_offset.row <=
\* row < scroll_offset.row + view_height(), and scroll_offset.col is unchanged
\* when scroll_offset.col <= grapheme < scroll_offset.col + view_width().
C27_NoScrollWhenVisible ==
    [][(key' # "none" /\ ~panicked /\ ~panicked') =>
          /\ (/\ scroll_offset.row <= text_position'.row
              /\ text_position'.row < scroll_offset.row + view_height(Scr).val)
                  => scroll_offset'.row = scroll_offset.row
          /\ (/\ scroll_offset.col <= text_position'.grapheme
              /\ text_position'.grapheme < scroll_offset.col + view_width(Scr).val)
                  => scroll_offset'.col = scroll_offset.col]_vars

\* C27 witness: the window has been scrolled down, and move_up has then moved
\* the cursor to a row strictly inside the window
C27_Witness ==
    /\ ~panicked /\ key = "move_up" /\ SizeFits
    /\ scroll_offset.row > 0
    /\ scroll_offset.row < text_position.row
    /\ text_position.row < scroll_offset.row + view_height(Scr).val

\* the offset scroll_into_view has to set on one axis, for the cursor position
\* c, the old offset `off` and the view extent: c - off - extent beyond the
\* window, c before it, and the old offset inside it
ScrolledOffset(c, off, extent) ==
    IF c >= off + extent THEN c - off - extent
    ELSE IF c < off THEN c
    ELSE off

\* C28: scroll_into_view at the end of a movement operation that returns, on a
\* terminal not smaller than the insets, sets, on each axis,
\* the offset to cursor - old offset - view extent when the cursor is beyond
\* the window (cursor >= old offset + view extent) and to the cursor position
\* when the cursor is before the window (cursor < old offset).
C28_ScrollFormula ==
    [][(key' # "none" /\ ~panicked /\ ~panicked' /\ SizeFits) =>
          /\ (text_position'.row >= scroll_offset.row + view_height(Scr).val
              \/ text_position'.row < scroll_offset.row)
                => scroll_offset'.row =
                       ScrolledOffset(text_position'.row, scroll_offset.row,
                                      view_height(Scr).val)
          /\ (text_position'.grapheme >= scroll_offset.col + view_width(Scr).val
              \/ text_position'.grapheme < scroll_offset.col)
                => scroll_offset'.col =
                       ScrolledOffset(text_position'.grapheme, scroll_offset.col,
                                      view_width(Scr).val)]_vars

\* C29: for every terminal size a Screen holds, also 0 x 0 and sizes below
\* the insets, view_width() returns width - left - right and view_height()
\* returns height - top - bottom (insets left 4, bottom 2, top 0, right 0), and
\* each is a non-negative extent.
C29_ViewExtent ==
    /\ view_width(Scr).ok
    /\ view_width(Scr).val = size.width - BoundaryLeft - BoundaryRight
    /\ view_width(Scr).val >= 0
    /\ view_height(Scr).ok
    /\ view_height(Scr).val = size.height - BoundaryTop - BoundaryBottom
    /\ view_height(Scr).val >= 0

\* the byte offsets of the word characters of line l that lie strictly after
\* byte offset b
WordsAfter(l, b) == {o \in WordOffsets(l.text) : o > b}

\* C30: move_next_word, from a cursor on a grapheme of its line with a synced
\* byte offset, when the line has a word character at a byte offset strictly
\* greater than the cursor's, returns with the cursor on the first such
\* character: row unchanged, byte its offset in the line, grapheme the one
\* that holds it; the cursor does not stay or move back.
C30_NextWordOnLine ==
    [][(/\ key' = "move_next_word"
        /\ ~panicked /\ ~WalkedOff
        /\ SizeFits /\ CursorInBounds(Scr) /\ ByteSynced(Scr)
        /\ WordsAfter(At(buffer.text, text_position.row), text_position.byte) # {}) =>
          LET l == At(buffer.text, text_position.row)
              after == WordsAfter(l, text_position.byte)
              first == CHOOSE o \in after : \A q \in after : o <= q
          IN /\ ~panicked'
             /\ text_position'.row = text_position.row
             /\ text_position'.byte = first
             /\ text_position'.grapheme = GraphemeFor(l, first)
             /\ text_position'.byte > text_position.byte]_vars

\* the rows after `row` of Buffer b that hold a word character
WordRowsAfter(b, row) ==
    {r \in (row + 1)..(b.num_lines - 1) : WordOffsets(At(b.text, r).text) # {}}

\* C31: move_next_word, from a cursor on a grapheme of its line with a synced
\* byte offset, when no word character of the current line lies after the
\* cursor and some later line has one, returns with the cursor on the first
\* word character of the first such line: row is that line's index, byte and
\* grapheme are the character's offset and grapheme index within that line.
C31_NextWordOnLaterLine ==
    [][(/\ key' = "move_next_word"
        /\ ~panicked /\ ~WalkedOff
        /\ SizeFits /\ CursorInBounds(Scr) /\ ByteSynced(Scr)
        /\ WordsAfter(At(buffer.text, text_position.row), text_position.byte) = {}
        /\ WordRowsAfter(buffer, text_position.row) # {}) =>
          LET rows == WordRowsAfter(buffer, text_position.row)
              dest == CHOOSE r \in rows : \A q \in rows : r <= q
              l == At(buffer.text, dest)
              first == FindWord(l.text)[1]
          IN /\ ~panicked'
             /\ text_position'.row = dest
             /\ text_position'.byte = first
             /\ text_position'.grapheme = GraphemeFor(l, first)]_vars

\* the byte offsets of the word characters of line l that lie strictly before
\* byte offset b
WordsBefore(l, b) == {o \in WordOffsets(l.text) : o < b}

\* the rows before `row` of Buffer b that hold a word character
WordRowsBefore(b, row) ==
    {r \in 0..(row - 1) : WordOffsets(At(b.text, r).text) # {}}

\* position p is strictly before position q in the document
PosBefore(p, q) == p.row < q.row \/ (p.row = q.row /\ p.byte < q.byte)

\* C32: move_prev_word, from a cursor on a grapheme of its line with a synced
\* byte offset, returns with the cursor on the last word character strictly
\* before the cursor's byte on the current line when there is one (row
\* unchanged), and otherwise on the last word character of the nearest
\* preceding line that has one (row that line's index, byte and grapheme
\* within that line); a cursor that moves ends strictly before where it was.
C32_PrevWord ==
    [][(/\ key' = "move_prev_word"
        /\ ~panicked /\ ~WalkedOff
        /\ SizeFits /\ CursorInBounds(Scr) /\ ByteSynced(Scr)) =>
          LET cur == At(buffer.text, text_position.row)
              before == WordsBefore(cur, text_position.byte)
              rows == WordRowsBefore(buffer, text_position.row)
              dest == IF before # {} THEN text_position.row
                      ELSE CHOOSE r \in rows : \A q \in rows : r >= q
              l == At(buffer.text, dest)
              hit == IF before # {} THEN CHOOSE o \in before : \A q \in before : o >= q
                     ELSE FindLastWord(l.text)[1]
          IN /\ ~panicked'
             /\ (before # {} \/ rows # {}) =>
                    /\ text_position'.row = dest
                    /\ text_position'.byte = hit
                    /\ text_position'.grapheme = GraphemeFor(l, hit)
             /\ \/ <<text_position'.row, text_position'.byte, text_position'.grapheme>>
                       = <<text_position.row, text_position.byte, text_position.grapheme>>
                \/ PosBefore(text_position', text_position)]_vars

\* C33: from a cursor on a grapheme of its line with a synced byte offset,
\* move_next_word leaves row, grapheme and byte unchanged when no word
\* character lies after the cursor in the rest of the document, and
\* move_prev_word leaves them unchanged when none lies before the cursor; the
\* buffer is unchanged in both cases.
C33_NoWordNoMove ==
    [][(/\ key' \in {"move_next_word", "move_prev_word"}
        /\ ~panicked /\ ~WalkedOff
        /\ SizeFits /\ CursorInBounds(Scr) /\ ByteSynced(Scr)
        /\ LET cur == At(buffer.text, text_position.row)
           IN IF key' = "move_next_word"
              THEN /\ WordsAfter(cur, text_position.byte) = {}
                   /\ WordRowsAfter(buffer, text_position.row) = {}
              ELSE /\ WordsBefore(cur, text_position.byte) = {}
                   /\ WordRowsBefore(buffer, text_position.row) = {}) =>
          /\ ~panicked'
          /\ text_position'.row = text_position.row
          /\ text_position'.grapheme = text_position.grapheme
          /\ text_position'.byte = text_position.byte
          /\ buffer' = buffer]_vars

-----------------------------------------------------------------------------
(* The normal-mode specification: NormalViewer::run on a loaded Screen:     *)
(* read an event, handle it, draw a frame                                   *)

\* key presses without modifier that edit or move
PlainKeys == {"Delete", "Left", "Right", "Up", "Down", "Home", "End",
              "w", "a", "s", "d", "x"}

\* key presses with SHIFT that move
ShiftKeys == {"S-Left", "S-Right", "S-Up", "S-Down", "S-Home", "S-End",
              "S-w", "S-a", "S-s", "S-d"}

\* key presses that make run return
ReturnKeys == {"q", "i", "Space", "e", "f", "c", "h"}

\* "other": every event the match arms ignore
Keys == PlainKeys \cup ShiftKeys \cup ReturnKeys \cup {"other"}

\* the match of NormalViewer::run on one key press
HandleKey(s, k) ==
    CASE k \in {"Delete", "x"} -> screen_delete_grapheme(s, s.text_position)
      [] k \in {"Left", "a"} -> move_left(s)
      [] k \in {"Right", "d"} -> move_right(s)
      [] k \in {"Up", "w"} -> move_up(s)
      [] k \in {"Down", "s"} -> move_down(s)
      [] k \in {"Home", "S-Home"} -> move_start_line(s)
      [] k \in {"End", "S-End"} -> move_end_line(s)
      [] k \in {"S-Left", "S-a"} -> move_prev_word(s)
      [] k \in {"S-Right", "S-d"} -> move_next_word(s)
      [] k \in {"S-Up", "S-w"} -> move_first_line(s)
      [] k \in {"S-Down", "S-s"} -> move_last_line(s)
      [] OTHER -> Ok(s)

\* the Screen operation a key press runs: the name kept in `key`
KeyOp(k) ==
    CASE k \in {"Delete", "x"} -> "delete_grapheme"
      [] k \in {"Left", "a"} -> "move_left"
      [] k \in {"Right", "d"} -> "move_right"
      [] k \in {"Up", "w"} -> "move_up"
      [] k \in {"Down", "s"} -> "move_down"
      [] k \in {"Home", "S-Home"} -> "move_start_line"
      [] k \in {"End", "S-End"} -> "move_end_line"
      [] k \in {"S-Left", "S-a"} -> "move_prev_word"
      [] k \in {"S-Right", "S-d"} -> "move_next_word"
      [] k \in {"S-Up", "S-w"} -> "move_first_line"
      [] k \in {"S-Down", "S-s"} -> "move_last_line"
      [] k \in ReturnKeys -> "return"
      [] OTHER -> "ignored"

NormalInit == ScreenLoaded(ScreenFiles \ {TallFile}) /\ pc = "read"

\* read() delivers a key press and the match handles it
NormalKey ==
    \E k \in Keys :
        /\ pc = "read"
        /\ ScreenApply(KeyOp(k), HandleKey(Scr, k))
        /\ pc' = IF k \in ReturnKeys THEN "done" ELSE "draw"

\* self.draw() at the end of the loop body
NormalDraw ==
    /\ pc = "draw"
    /\ ~panicked
    /\ panicked' = ~draw(Scr).ok
    /\ pc' = "read"
    /\ UNCHANGED <<debug_build, lineVars, bufferVars, size, text_position,
                   scroll_offset, screen_location, key, rt, fileVars, keyVars, loop>>

NormalNext ==
    \/ NormalKey
    \/ NormalDraw

SpecNormal == NormalInit /\ [][NormalNext]_vars

\* Screen s is fully resynced: the cursor is on a grapheme of a buffer line (or
\* the buffer is empty), the byte cache is that grapheme's start, and the
\* screen location is the cursor's place relative to the scroll offset
Resynced(s) ==
    /\ s.buffer.num_lines = 0 \/ (CursorInBounds(s) /\ ByteSynced(s))
    /\ s.screen_location.col =
           s.text_position.grapheme - s.scroll_offset.col + BoundaryLeft
    /\ s.screen_location.row = s.text_position.row - s.scroll_offset.row + BoundaryTop

\* C8: in the normal-mode loop, the frame drawn after an event is handled
\* observes a fully resynced state; in particular a delete key ('x' or Delete)
\* pressed in a resynced state leaves a resynced state for the draw.
C8_FrameSeesResynced ==
    [][(pc = "read" /\ pc' = "draw" /\ key' = "delete_grapheme"
        /\ Resynced(Scr) /\ ~panicked') => Resynced(Scr)']_vars

\* the names, kept in `key`, of the movement operations and of delete_grapheme
ScreenOps ==
    {"move_up", "move_down", "move_left", "move_right", "move_start_line",
     "move_end_line", "move_first_line", "move_last_line", "move_next_word",
     "move_prev_word", "delete_grapheme"}

\* C35: on an empty buffer (num_lines = 0), on a terminal not smaller than the
\* insets, every movement operation and Screen::delete_grapheme returns and
\* leaves the cursor at row 0, grapheme 0, byte 0.
C35_EmptyBufferSafe ==
    [][(/\ pc = "read" /\ key' \in ScreenOps
        /\ ~panicked /\ SizeFits
        /\ buffer.num_lines = 0) =>
          /\ ~panicked'
          /\ text_position' = [row |-> 0, byte |-> 0, grapheme |-> 0]]_vars

-----------------------------------------------------------------------------
(* The copy/paste round trip: copy_text(p0, p1) on a Buffer, then paste_text *)
(* at p0 on a fresh Buffer that lacks the copied range                       *)

\* a position on a grapheme of Buffer b
Positions(b) ==
    {[row |-> r, byte |-> 0, grapheme |-> g] :
        r \in 0..(Len(b.text) - 1), g \in 0..MaxLen} \cap
    {p \in [row : 0..(Len(b.text) - 1), byte : {0}, grapheme : 0..MaxLen] :
        p.grapheme < At(b.text, p.row).grapheme_count}

\* the fresh Buffer with the lines of b except the graphemes p0 ..= p1: the
\* rows before p0.row, the text before p0 joined with the text after p1, and
\* the rows after p1.row
WithoutRange(b, p0, p1) ==
    LET srow == At(b.text, p0.row)
        erow == At(b.text, p1.row)
        joined == StrTo(srow.text, At(srow.grapheme_starts, p0.grapheme))
                  \o StrFrom(erow.text, At(erow.grapheme_ends, p1.grapheme) + 1)
        texts == SubSeq(Texts(b), 1, p0.row) \o <<joined>>
                 \o SubSeq(Texts(b), p1.row + 2, Len(b.text))
    IN [text |-> [i \in 1..Len(texts) |-> from_string(texts[i])],
        num_lines |-> Len(texts)]

RtInit ==
    /\ debug_build \in BOOLEAN
    /\ panicked = FALSE
    /\ \E f \in BufFiles : buffer = from_file(f)
    /\ blast = NoBLast
    /\ \E p0, p1 \in Positions(buffer) :
          /\ PosLeq(p0, p1)
          /\ rt = [pc |-> "start", orig |-> buffer, p0 |-> p0, p1 |-> p1, clip |-> <<>>]
    /\ LineIdle /\ ScreenIdle /\ FileIdle /\ KeyIdle /\ LoopIdle

\* s = copy_text(p0, p1), and the fresh Buffer is set up
RtCopy ==
    /\ rt.pc = "start" /\ ~panicked
    /\ LET r == copy_text(buffer, rt.p0, rt.p1)
       IN /\ panicked' = ~r.ok
          /\ rt' = [rt EXCEPT !.pc = "copied", !.clip = IF r.ok THEN r.val ELSE <<>>]
          /\ buffer' = IF r.ok THEN WithoutRange(buffer, rt.p0, rt.p1) ELSE buffer
    /\ UNCHANGED <<debug_build, lineVars, blast, screenVars, fileVars, keyVars, loop>>

\* paste_text(p0, s) on the fresh Buffer
RtPaste ==
    /\ rt.pc = "copied" /\ ~panicked
    /\ LET r == paste_text(buffer, rt.p0, rt.clip)
       IN /\ panicked' = ~r.ok
          /\ buffer' = IF r.ok THEN r.val ELSE buffer
    /\ rt' = [rt EXCEPT !.pc = "pasted"]
    /\ UNCHANGED <<debug_build, lineVars, blast, screenVars, fileVars, keyVars, loop>>

RtNext ==
    \/ RtCopy
    \/ RtPaste

SpecRoundTrip == RtInit /\ [][RtNext]_vars

\* C9: for positions p0 <= p1 of a buffer, s = copy_text(p0, p1) followed by
\* paste_text(p0, s) on a fresh buffer without the copied range returns and
\* reproduces the original line texts, also at the end of a line and in an
\* empty line.
C9_CopyPasteRoundTrip ==
    (rt.pc = "pasted") => ~panicked /\ Texts(buffer) = Texts(rt.orig)

====
